---------------------------- MODULE Spec2Model ----------------------------
(***************************************************************************)
(* Step resolution as done by bmad_measure_phase.py: the steps of the      *)
(* feature files are extracted, the step definitions of the TypeScript     *)
(* files are extracted, every step is matched against every definition,    *)
(* and the result is classified matched / unmatched / ambiguous and        *)
(* counted per feature.                                                    *)
(*                                                                         *)
(* Text is a sequence of one-character strings.  A feature file is the     *)
(* sequence of its step lines, each with the feature and the scenario it   *)
(* stands under; a step-definition file is the sequence of its             *)
(* Given/When/Then(...) declarations.                                      *)
(*                                                                         *)
(* update_search_steps of bmad_decide_fix.py, which filters the lines of   *)
(* search-steps.ts, is modelled beside it (SpecSearch), and so are the     *)
(* other scripts of the cycle: main of bmad_fix_all_tests.py (SpecFix,     *)
(* with measure_failures on its own in SpecMeasure), implement_fixes of    *)
(* bmad_decide_fix.py (SpecDecide), run_tests_and_analyze of               *)
(* bmad_build_analysis.py (SpecAnalysis) and verify_bmad_fixes.py          *)
(* (SpecVerify).                                                           *)
(***************************************************************************)
EXTENDS Integers, Sequences, FiniteSets, TLC

VARIABLES
    pc,                \* position in generate_measure_report / update_search_steps
    feature_lines,     \* the step lines of the feature files, in source order
    step_decls,        \* the declarations of the step files, in source order
    steps_needed,      \* result of extract_steps_from_features
    step_definitions,  \* result of extract_step_definitions
    mapping_results,   \* [matched, unmatched, ambiguous]
    step_index,        \* index of the step the matching loop is at
    report,            \* the MEASURE report
    content_lines,     \* update_search_steps: content.split('\n')
    filtered_lines,    \* update_search_steps: the lines kept so far
    skip_next,         \* update_search_steps: False (0) or the count j - i - 1
    line_index,        \* update_search_steps: index of the line the loop is at
    file_system,       \* the files the scripts read and write, by name
    issues,            \* bmad_fix_all_tests: result of analyze_current_state
    test_results,      \* bmad_fix_all_tests: the JSON the test runner prints
    metrics,           \* bmad_fix_all_tests: result of measure_failures
    seen_patterns,     \* implement_all_fixes: the keys of the definitions kept
    in_duplicate,      \* implement_all_fixes: inside a definition being deleted
    fixes_applied,     \* implement_all_fixes: the fixes reported
    phases,            \* bmad_fix_all_tests: the phases main has entered
    exit_code,         \* exit code of the process, None while it runs
    runs,              \* bmad_decide_fix: navigation-steps.ts before the first run and after each run
    result,            \* the subprocess result: stdout, stderr
    printed,           \* what the script has printed, in order
    failures,          \* run_tests_and_analyze: the four lists
    current_scenario,  \* run_tests_and_analyze: the last Scenario: line, <<>> for None
    server_proc        \* verify_bmad_fixes: state of the server process

measure_vars == <<feature_lines, step_decls, steps_needed, step_definitions,
                  mapping_results, step_index, report>>
search_vars == <<content_lines, filtered_lines, skip_next, line_index>>

tool_vars == <<file_system, issues, test_results, metrics, seen_patterns, in_duplicate,
               fixes_applied, phases, exit_code, runs, result, printed,
               failures, current_scenario, server_proc>>

vars == <<pc, feature_lines, step_decls, steps_needed, step_definitions,
          mapping_results, step_index, report,
          content_lines, filtered_lines, skip_next, line_index,
          file_system, issues, test_results, metrics, seen_patterns, in_duplicate,
          fixes_applied, phases, exit_code, runs, result, printed,
          failures, current_scenario, server_proc>>

-----------------------------------------------------------------------------
(* Sequences *)

\* s[from..] starts with the text old
StartsWithAt(s, from, old) ==
    /\ from + Len(old) - 1 <= Len(s)
    /\ \A k \in 1..Len(old) : s[from + k - 1] = old[k]

\* Python's str.replace(old, new): left to right, non-overlapping
\* (old is never empty): the leftmost occurrence is replaced, and the
\* search goes on after it
RECURSIVE Replace(_, _, _)
Replace(s, old, new) ==
    LET found == {k \in 1..Len(s) : StartsWithAt(s, k, old)} IN
    IF found = {} THEN s
    ELSE LET first == CHOOSE k \in found : \A j \in found : k <= j
         IN SubSeq(s, 1, first - 1) \o new
              \o Replace(SubSeq(s, first + Len(old), Len(s)), old, new)

\* Python's `c in s`
Contains(s, c) == \E k \in 1..Len(s) : s[k] = c

-----------------------------------------------------------------------------
(* The regular expressions of Python's re module, as far as the patterns   *)
(* built by match_step_to_definition use them: literals, `.`, `*`, `+`,    *)
(* `|`, groups, `^`, `$`, `\d`, `\w` and the class `[^"]`.  A `{` or `}`   *)
(* that does not form a counted repeat is a literal.                       *)

Digits == {"0", "1", "2", "3", "4", "5", "6", "7", "8", "9"}
Letters == {"a", "b", "c", "d", "e", "f", "g", "h", "i", "j", "k", "l", "m",
            "n", "o", "p", "q", "r", "s", "t", "u", "v", "w", "x", "y", "z",
            "A", "B", "C", "D", "E", "F", "G", "H", "I", "J", "K", "L", "M",
            "N", "O", "P", "Q", "R", "S", "T", "U", "V", "W", "X", "Y", "Z"}
WordChars == Letters \cup Digits \cup {"_"}

Tok(k, c) == [k |-> k, c |-> c]

\* The tokens of a regular expression text.  `\d`, `\w` and `[^"]` are the
\* only escapes and the only class the substitutions produce; any other use
\* of `\` or `[` is outside the modelled syntax and lexes to "unsupported".
NotQuoteClass == <<"[", "^", "\"", "]">>

\* The character at p belongs to the token that starts before it.  A `\` and
\* a `[` are never such a character, so every one of them starts a token.
InsideToken(s, p) ==
    \/ p >= 2 /\ s[p - 1] = "\\" /\ s[p] \in {"d", "w"}
    \/ \E q \in 1..(p - 1) : q + 3 >= p /\ StartsWithAt(s, q, NotQuoteClass)

\* The token that starts at p
TokenAt(s, p) ==
    LET c == s[p] IN
    CASE c = "\\" /\ p < Len(s) /\ s[p + 1] = "d" -> Tok("digit", "")
      [] c = "\\" /\ p < Len(s) /\ s[p + 1] = "w" -> Tok("word", "")
      [] c = "\\" -> Tok("unsupported", c)
      [] c = "[" /\ StartsWithAt(s, p, NotQuoteClass) -> Tok("notquote", "")
      [] c = "[" -> Tok("unsupported", c)
      [] c = "." -> Tok("any", "")
      [] c = "*" -> Tok("star", "")
      [] c = "+" -> Tok("plus", "")
      [] c = "|" -> Tok("alt", "")
      [] c = "(" -> Tok("open", "")
      [] c = ")" -> Tok("close", "")
      [] c = "^" -> Tok("bol", "")
      [] c = "$" -> Tok("eol", "")
      [] c \in {"?", "]"} -> Tok("unsupported", c)
      [] OTHER -> Tok("lit", c)

Lex(s) ==
    LET starts(p) == ~InsideToken(s, p)
        at == SelectSeq([p \in 1..Len(s) |-> p], starts)
    IN [k \in 1..Len(at) |-> TokenAt(s, at[k])]

\* Nesting depth after the tokens lo..hi: the `(` less the `)`
Depth(toks, lo, hi) ==
    Cardinality({j \in lo..hi : toks[j].k = "open"})
      - Cardinality({j \in lo..hi : toks[j].k = "close"})

\* re.compile succeeds: parentheses balance ("missing )", "unbalanced
\* parenthesis"), every repeat has something to repeat ("nothing to
\* repeat") and does not follow a repeat ("multiple repeat")
Compiles(toks) ==
    /\ \A j \in 1..Len(toks) : toks[j].k # "unsupported"
    /\ \A j \in 1..Len(toks) : Depth(toks, 1, j) >= 0
    /\ Depth(toks, 1, Len(toks)) = 0
    /\ \A j \in 1..Len(toks) :
         toks[j].k \in {"star", "plus"} =>
           /\ j > 1
           /\ toks[j - 1].k \notin {"open", "alt", "bol", "eol", "star", "plus"}

\* Index of the `)` that closes the `(` at index i
CloseOf(toks, i) ==
    CHOOSE j \in (i + 1)..Len(toks) :
        /\ Depth(toks, i, j) = 0
        /\ \A m \in (i + 1)..(j - 1) : Depth(toks, i, m) > 0

\* Index of the first `|` of toks[lo..hi] outside any group, 0 if none
FirstAlt(toks, lo, hi) ==
    LET tops == {k \in lo..hi : toks[k].k = "alt" /\ Depth(toks, lo, k) = 0} IN
    IF tops = {} THEN 0 ELSE CHOOSE k \in tops : \A j \in tops : k <= j

\* A one-character token accepts the character c
CharOk(tok, c) ==
    CASE tok.k = "lit" -> c = tok.c
      [] tok.k = "any" -> TRUE
      [] tok.k = "digit" -> c \in Digits
      [] tok.k = "word" -> c \in WordChars
      [] tok.k = "notquote" -> c # "\""
      [] OTHER -> FALSE

\* The positions (0..Len(text)) at which a match of toks[lo..hi] can end
\* when it starts at one of the positions S
RECURSIVE AltEnds(_, _, _, _, _)
RECURSIVE SeqEnds(_, _, _, _, _)
RECURSIVE AtomEnds(_, _, _, _, _)
RECURSIVE StarEnds(_, _, _, _, _)

AltEnds(toks, lo, hi, text, S) ==
    LET k == FirstAlt(toks, lo, hi) IN
    IF k = 0 THEN SeqEnds(toks, lo, hi, text, S)
    ELSE SeqEnds(toks, lo, k - 1, text, S) \cup AltEnds(toks, k + 1, hi, text, S)

SeqEnds(toks, lo, hi, text, S) ==
    IF lo > hi \/ S = {} THEN S
    ELSE LET last == IF toks[lo].k = "open" THEN CloseOf(toks, lo) ELSE lo
             rep == IF last + 1 <= hi /\ toks[last + 1].k \in {"star", "plus"}
                    THEN toks[last + 1].k ELSE "once"
             after == CASE rep = "once" -> AtomEnds(toks, lo, last, text, S)
                        [] rep = "star" -> StarEnds(toks, lo, last, text, S)
                        [] rep = "plus" -> StarEnds(toks, lo, last, text,
                                                    AtomEnds(toks, lo, last, text, S))
         IN SeqEnds(toks, IF rep = "once" THEN last + 1 ELSE last + 2, hi, text, after)

AtomEnds(toks, lo, last, text, S) ==
    CASE toks[lo].k = "open" -> AltEnds(toks, lo + 1, last - 1, text, S)
      [] toks[lo].k = "bol" -> {p \in S : p = 0}
      [] toks[lo].k = "eol" -> {p \in S : p = Len(text)}
      [] OTHER -> {p + 1 : p \in {q \in S : q < Len(text) /\ CharOk(toks[lo], text[q + 1])}}

StarEnds(toks, lo, last, text, S) ==
    LET more == S \cup AtomEnds(toks, lo, last, text, S) IN
    IF more = S THEN S ELSE StarEnds(toks, lo, last, text, more)

\* bool(re.match(regex, text)); a regex that does not compile raises
\* re.error, reported here as "error"
re_match(regex, text) ==
    LET toks == Lex(regex) IN
    IF ~Compiles(toks) THEN "error"
    ELSE IF AltEnds(toks, 1, Len(toks), text, {0}) # {} THEN "match" ELSE "none"

-----------------------------------------------------------------------------
(* match_step_to_definition *)

\* The {string} fragment without its two quotes
StringFragmentUnquoted == <<"[", "^", "\"", "]", "*">>

StringFragment == <<"\"", "[", "^", "\"", "]", "*", "\"">>
\* The {int} fragment taking any characters at all
IntFragmentAny == <<".", "+">>

IntFragment == <<"\\", "d", "+">>
WordFragment == <<"\\", "w", "+">>

\* "Convert Cucumber expression to regex": the three str.replace calls
cucumber_to_regex(pattern) ==
    Replace(Replace(Replace(pattern,
                            <<"{", "s", "t", "r", "i", "n", "g", "}">>, StringFragment),
                    <<"{", "i", "n", "t", "}">>, IntFragment),
            <<"{", "w", "o", "r", "d", "}">>, WordFragment)

\* f"^{pattern}$"
anchored(pattern) == <<"^">> \o pattern \o <<"$">>

\* The regex attempt of one definition on one step text; the bare except
\* turns a pattern that does not compile into no match
regex_accepts(definition, step_text) ==
    /\ definition.is_regex
    /\ re_match(anchored(cucumber_to_regex(definition.pattern)), step_text) = "match"

\* The exact match taken as a prefix test (startswith in place of ==)
definition_accepts_prefix(definition, step_text) ==
    \/ StartsWithAt(step_text, 1, definition.pattern)
    \/ regex_accepts(definition, step_text)

\* One definition is appended to matches for a step text: the exact match
\* first, the regex match otherwise
definition_accepts(definition, step_text) ==
    \/ definition.pattern = step_text
    \/ regex_accepts(definition, step_text)

\* "Skip if step types don't match (unless step is 'And')"
type_compatible(step, definition) ==
    step.type = "And" \/ step.type = definition.type

\* The candidates listed from the last definition to the first
match_step_to_definition_reversed(step, definitions) ==
    LET keep(d) == type_compatible(step, d) /\ definition_accepts(d, step.text)
        found == SelectSeq(definitions, keep)
    IN [n \in 1..Len(found) |-> found[Len(found) + 1 - n]]

match_step_to_definition(step, definitions) ==
    LET keep(d) == type_compatible(step, d) /\ definition_accepts(d, step.text)
    IN SelectSeq(definitions, keep)

-----------------------------------------------------------------------------
(* extract_steps_from_features and extract_step_definitions *)

KeywordText(type) ==
    CASE type = "Given" -> <<"G", "i", "v", "e", "n">>
      [] type = "When" -> <<"W", "h", "e", "n">>
      [] type = "Then" -> <<"T", "h", "e", "n">>
      [] type = "And" -> <<"A", "n", "d">>

\* One entry of steps_needed.  A line is what re.findall returns for one
\* `(Given|When|Then|And) (.+)` hit, with the feature and scenario the loops
\* are in; the keyword is stored as found.
make_step(line) ==
    [feature |-> line.feature, scenario |-> line.scenario,
     type |-> line.type, text |-> line.text,
     full_step |-> KeywordText(line.type) \o <<" ">> \o line.text]

\* The catalog with a repeated step line taken once
extract_steps_from_features_unique(lines) ==
    LET first(k) == lines[k].scenario # "" /\ \A j \in 1..(k - 1) : lines[j] # lines[k]
        kept == SelectSeq([k \in 1..Len(lines) |-> k], first)
    IN [k \in 1..Len(kept) |-> make_step(lines[kept[k]])]

\* A chunk of the re.split that does not hold a named `Scenario: ...`
\* header (the text before the first scenario) contributes no step: such
\* lines carry the scenario "".
extract_steps_from_features(lines) ==
    LET named(l) == l.scenario # ""
        kept == SelectSeq(lines, named)
    IN [k \in 1..Len(kept) |-> make_step(kept[k])]

\* extract_feature_steps of the BUILD analysis: for every feature file the
\* list of its scenario blocks, each with its name and the (keyword, text)
\* pairs of its step lines.  A block is a run of lines of one scenario.
extract_feature_steps(lines) ==
    LET opens(k) == \/ k = 1
                    \/ lines[k - 1].feature # lines[k].feature
                    \/ lines[k - 1].scenario # lines[k].scenario
        starts == SelectSeq([k \in 1..Len(lines) |-> k], opens)
        last(b) == IF b = Len(starts) THEN Len(lines) ELSE starts[b + 1] - 1
        block(b) ==
            [name |-> lines[starts[b]].scenario,
             steps |-> [n \in 1..(last(b) - starts[b] + 1) |->
                          <<lines[starts[b] + n - 1].type, lines[starts[b] + n - 1].text>>]]
        of(f) == LET in(b) == lines[starts[b]].feature = f
                     bs == SelectSeq([b \in 1..Len(starts) |-> b], in)
                 IN [n \in 1..Len(bs) |-> block(bs[n])]
    IN [f \in {lines[k].feature : k \in 1..Len(lines)} |->
          [name |-> f, scenarios |-> of(f)]]

\* The delimiters of a declared pattern; the third one, the backquote, is not
\* a character of the modelled texts
QuoteChars == {"'", "\""}

\* What the capture group of the declaration regex takes of the text after
\* the opening quote: the run of characters before the first quote character
captured_pattern(text) ==
    LET quotes == {k \in 1..Len(text) : text[k] \in QuoteChars} IN
    IF quotes = {} THEN text
    ELSE SubSeq(text, 1, (CHOOSE k \in quotes : \A j \in quotes : k <= j) - 1)

is_regex(pattern) == Contains(pattern, "{") \/ Contains(pattern, "(")

make_definition(file, type, pattern) ==
    [file |-> file, type |-> type, pattern |-> pattern,
     is_regex |-> is_regex(pattern)]

\* Pattern 1: every decorator declaration (@Given, @When, @Then) of the
\* file, in order
RECURSIVE append_decorated(_, _, _)
append_decorated(defs, file, decls) ==
    IF decls = <<>> THEN defs
    ELSE LET d == Head(decls)
             p == captured_pattern(d.pattern)
         IN append_decorated(
                IF d.decorator /\ p # <<>>
                THEN Append(defs, make_definition(file, d.type, p)) ELSE defs,
                file, Tail(decls))

\* The duplicate test of pattern 2: a definition with this pattern text is
\* already in step_definitions (its keyword and its file are not compared)
already_defined(defs, type, pattern) ==
    \E k \in 1..Len(defs) : defs[k].pattern = pattern

\* Pattern 2: every Given(, When(, Then( declaration of the file (a decorated
\* one is hit again), unless its pattern is already in the list
RECURSIVE append_plain(_, _, _)
append_plain(defs, file, decls) ==
    IF decls = <<>> THEN defs
    ELSE LET d == Head(decls)
             p == captured_pattern(d.pattern)
         IN append_plain(
                IF p # <<>> /\ ~already_defined(defs, d.type, p)
                THEN Append(defs, make_definition(file, d.type, p)) ELSE defs,
                file, Tail(decls))

\* files[k] is the sequence of declarations of the k-th step file
RECURSIVE extract_from(_, _, _)
extract_from(defs, files, k) ==
    IF k > Len(files) THEN defs
    ELSE extract_from(
             append_plain(append_decorated(defs, k, files[k]), k, files[k]),
             files, k + 1)

extract_step_definitions(files) == extract_from(<<>>, files, 1)

-----------------------------------------------------------------------------
(* generate_measure_report *)

NoReport == [phase |-> "none"]

\* "Count by feature": the three loops over mapping_results, the entries of
\* the defaultdict being created on first use
\* The count of one feature taken over the records of all features
count_feature_any(features, f) == Len(features)

RECURSIVE count_feature(_, _)
count_feature(features, f) ==
    IF features = <<>> THEN 0
    ELSE (IF Head(features) = f THEN 1 ELSE 0) + count_feature(Tail(features), f)

features_of_items(items) == [k \in 1..Len(items) |-> items[k].step.feature]
features_of_steps(steps) == [k \in 1..Len(steps) |-> steps[k].feature]

steps_by_feature(results) ==
    LET m == features_of_items(results.matched)
        u == features_of_steps(results.unmatched)
        a == features_of_items(results.ambiguous)
        present == {m[k] : k \in 1..Len(m)} \cup {u[k] : k \in 1..Len(u)}
                   \cup {a[k] : k \in 1..Len(a)}
    IN [f \in present |->
          [matched |-> count_feature(m, f),
           unmatched |-> count_feature(u, f),
           ambiguous |-> count_feature(a, f)]]

make_report(steps, definitions, results) ==
    [phase |-> "MEASURE",
     total_steps |-> Len(steps),
     total_definitions |-> Len(definitions),
     matched_steps |-> Len(results.matched),
     unmatched_steps |-> Len(results.unmatched),
     ambiguous_steps |-> Len(results.ambiguous),
     steps_by_feature |-> steps_by_feature(results)]

\* The branch on len(matches) with the first candidate taken whenever there
\* is one (>= 1 in place of == 1)
classify_first_wins(results, step, matches) ==
    IF Len(matches) = 0
    THEN [results EXCEPT !.unmatched = Append(@, step)]
    ELSE [results EXCEPT !.matched = Append(@, [step |-> step, definition |-> matches[1]])]

\* The branch on len(matches) with no record for a step that has several
\* candidates
classify_skip_ambiguous(results, step, matches) ==
    IF Len(matches) = 0
    THEN [results EXCEPT !.unmatched = Append(@, step)]
    ELSE IF Len(matches) = 1
    THEN [results EXCEPT !.matched = Append(@, [step |-> step, definition |-> matches[1]])]
    ELSE results

\* The branch on len(matches) of the matching loop
classify(results, step, matches) ==
    IF Len(matches) = 0
    THEN [results EXCEPT !.unmatched = Append(@, step)]
    ELSE IF Len(matches) = 1
    THEN [results EXCEPT !.matched = Append(@, [step |-> step, definition |-> matches[1]])]
    ELSE [results EXCEPT !.ambiguous = Append(@, [step |-> step, definitions |-> matches])]

ExtractSteps ==
    /\ pc = "extract_steps"
    /\ steps_needed' = extract_steps_from_features(feature_lines)
    /\ pc' = "extract_definitions"
    /\ UNCHANGED <<feature_lines, step_decls, step_definitions, mapping_results, step_index, report>>
    /\ UNCHANGED search_vars
    /\ UNCHANGED tool_vars

ExtractDefinitions ==
    /\ pc = "extract_definitions"
    /\ step_definitions' = extract_step_definitions(step_decls)
    /\ pc' = "match"
    /\ UNCHANGED <<feature_lines, step_decls, steps_needed, mapping_results, step_index, report>>
    /\ UNCHANGED search_vars
    /\ UNCHANGED tool_vars

\* One iteration of `for step in steps_needed`
MatchStep ==
    /\ pc = "match"
    /\ step_index <= Len(steps_needed)
    /\ mapping_results' = classify(mapping_results, steps_needed[step_index],
                                   match_step_to_definition(steps_needed[step_index], step_definitions))
    /\ step_index' = step_index + 1
    /\ UNCHANGED <<pc, feature_lines, step_decls, steps_needed, step_definitions, report>>
    /\ UNCHANGED search_vars
    /\ UNCHANGED tool_vars

\* The report is built; the summary then divides by total_steps, so with no
\* step at all the function ends in a ZeroDivisionError before the report is
\* saved or returned
Report ==
    /\ pc = "match"
    /\ step_index > Len(steps_needed)
    /\ report' = make_report(steps_needed, step_definitions, mapping_results)
    /\ pc' = IF Len(steps_needed) = 0 THEN "ZeroDivisionError" ELSE "done"
    /\ UNCHANGED <<feature_lines, step_decls, steps_needed, step_definitions,
                   mapping_results, step_index>>
    /\ UNCHANGED search_vars
    /\ UNCHANGED tool_vars

Next == ExtractSteps \/ ExtractDefinitions \/ MatchStep \/ Report

\* update_search_steps is not running
SearchIdle ==
    /\ content_lines = <<>>
    /\ filtered_lines = <<>>
    /\ skip_next = 0
    /\ line_index = 1

\* Python's None
None == "None"

\* generate_measure_report is not running
MeasureIdle ==
    /\ feature_lines = <<>>
    /\ step_decls = <<>>
    /\ steps_needed = <<>>
    /\ step_definitions = <<>>
    /\ mapping_results = [matched |-> <<>>, unmatched |-> <<>>, ambiguous |-> <<>>]
    /\ step_index = 1
    /\ report = NoReport

\* None of the other scripts is running
ToolsIdle ==
    /\ file_system = <<>>
    /\ issues = None
    /\ test_results = <<>>
    /\ metrics = None
    /\ seen_patterns = {}
    /\ in_duplicate = FALSE
    /\ fixes_applied = <<>>
    /\ phases = <<>>
    /\ exit_code = None
    /\ runs = <<>>
    /\ result = None
    /\ printed = <<>>
    /\ failures = None
    /\ current_scenario = <<>>
    /\ server_proc = None

-----------------------------------------------------------------------------
(* The inputs of the checked runs *)

MaxSteps == 2
MaxDecls == 2
MaxPieces == 2
MaxTextLen == 3

StepTypes == {"Given", "When", "Then", "And"}
DefTypes == {"Given", "When", "Then"}

\* Sequences of at most n elements of S
SeqsUpTo(S, n) == UNION {[1..k -> S] : k \in 0..n}

\* The places a step line can stand at, in source order: a scenario of
\* registration.feature and one of profile-management.feature
Places == <<[feature |-> "registration", scenario |-> "Register"],
            [feature |-> "profile", scenario |-> "Edit"]>>

RunTexts == {<<"5">>}
RunPatterns == {<<"5">>, <<"{", "i", "n", "t", "}">>}

RunLines ==
    {[k \in 1..Len(ps) |-> [feature |-> Places[ps[k].place].feature,
                            scenario |-> Places[ps[k].place].scenario,
                            type |-> ps[k].type, text |-> ps[k].text]] :
       ps \in {s \in SeqsUpTo([place : 1..Len(Places), type : StepTypes, text : RunTexts],
                              MaxSteps) :
                 \A k \in 1..Len(s) - 1 : s[k].place <= s[k + 1].place}}

RunDecls ==
    {<<ds>> : ds \in SeqsUpTo([type : DefTypes, pattern : RunPatterns,
                               decorator : BOOLEAN], MaxDecls)}

EmptyResults == [matched |-> <<>>, unmatched |-> <<>>, ambiguous |-> <<>>]

Init ==
    /\ pc = "extract_steps"
    /\ feature_lines \in RunLines
    /\ step_decls \in RunDecls
    /\ steps_needed = <<>>
    /\ step_definitions = <<>>
    /\ mapping_results = EmptyResults
    /\ step_index = 1
    /\ report = NoReport
    /\ SearchIdle
    /\ ToolsIdle

Spec == Init /\ [][Next]_vars

-----------------------------------------------------------------------------
(* match_step_to_definition on its own: one step against one definition   *)
(* given with its pattern as extracted, the pattern and the text drawn     *)
(* from every short combination of the pieces below and from the examples  *)
(* of the documentation                                                    *)

ClickQuoted == <<"I", " ", "c", "l", "i", "c", "k", " ", "\"", "{", "s", "t", "r", "i", "n", "g", "}", "\"">>
ClickString == <<"I", " ", "c", "l", "i", "c", "k", " ", "{", "s", "t", "r", "i", "n", "g", "}">>
ClickSubmit == <<"I", " ", "c", "l", "i", "c", "k", " ", "\"", "S", "u", "b", "m", "i", "t", "\"">>
ClickSubmitNow == <<"I", " ", "c", "l", "i", "c", "k", " ", "\"", "S", "u", "b", "m", "i", "t", "\"", " ", "n", "o", "w">>
ThenClickSubmit == <<"T", "h", "e", "n", " ", "I", " ", "c", "l", "i", "c", "k", " ", "\"", "S", "u", "b", "m", "i", "t", "\"">>
ClickSubmitDoubled == <<"I", " ", "c", "l", "i", "c", "k", " ", "\"", "\"", "S", "u", "b", "m", "i", "t", "\"", "\"">>
SeeAmount == <<"I", " ", "s", "e", "e", " ", "{", "a", "m", "o", "u", "n", "t", "}">>
SeeFive == <<"I", " ", "s", "e", "e", " ", "5">>
WaitInt == <<"I", " ", "w", "a", "i", "t", " ", "f", "o", "r", " ", "{", "i", "n", "t", "}", " ", "s", "e", "c", "o", "n", "d", "s">>
WaitMinus5 == <<"I", " ", "w", "a", "i", "t", " ", "f", "o", "r", " ", "-", "5", " ", "s", "e", "c", "o", "n", "d", "s">>
Wait5 == <<"I", " ", "w", "a", "i", "t", " ", "f", "o", "r", " ", "5", " ", "s", "e", "c", "o", "n", "d", "s">>
LoggedIn == <<"I", " ", "a", "m", " ", "l", "o", "g", "g", "e", "d", " ", "i", "n">>
LoggedInCapital == <<"I", " ", "a", "m", " ", "l", "o", "g", "g", "e", "d", " ", "I", "n">>
LoggedInNow == <<"I", " ", "a", "m", " ", "l", "o", "g", "g", "e", "d", " ", "i", "n", " ", "n", "o", "w">>
Wait0 == <<"I", " ", "w", "a", "i", "t", " ", "f", "o", "r", " ", "0", " ", "s", "e", "c", "o", "n", "d", "s">>
WaitFive == <<"I", " ", "w", "a", "i", "t", " ", "f", "o", "r", " ", "f", "i", "v", "e", " ", "s", "e", "c", "o", "n", "d", "s">>
WaitQuoted5 == <<"I", " ", "w", "a", "i", "t", " ", "f", "o", "r", " ", "\"", "5", "\"", " ", "s", "e", "c", "o", "n", "d", "s">>
Quoted5 == <<"\"", "5", "\"">>
OpenParen == <<"(">>
PriceFloat == <<"t", "h", "e", " ", "p", "r", "i", "c", "e", " ", "i", "s", " ", "{", "f", "l", "o", "a", "t", "}">>
Price1_5 == <<"t", "h", "e", " ", "p", "r", "i", "c", "e", " ", "i", "s", " ", "1", ".", "5">>
PriceMinus2 == <<"t", "h", "e", " ", "p", "r", "i", "c", "e", " ", "i", "s", " ", "-", "2">>
Price10 == <<"t", "h", "e", " ", "p", "r", "i", "c", "e", " ", "i", "s", " ", "1", "0">>
Price1Dot == <<"t", "h", "e", " ", "p", "r", "i", "c", "e", " ", "i", "s", " ", "1", ".">>
PriceAbc == <<"t", "h", "e", " ", "p", "r", "i", "c", "e", " ", "i", "s", " ", "a", "b", "c">>

ExamplePatterns == {ClickQuoted, ClickString, SeeAmount, WaitInt, LoggedIn, PriceFloat}
ExampleTexts == {ClickSubmit, ClickSubmitNow, ThenClickSubmit, ClickSubmitDoubled,
                 SeeAmount, SeeFive, WaitMinus5, Wait5,
                 LoggedIn, LoggedInCapital, LoggedInNow,
                 Wait0, WaitFive, WaitQuoted5, OpenParen,
                 Price1_5, PriceMinus2, Price10, Price1Dot, PriceAbc}

PatternPieces == {<<"a">>, <<"A">>, <<"5">>, <<"-">>, <<"\"">>,
                  <<".">>, <<"*">>, <<"|">>, <<"$">>, <<"(">>, <<")">>,
                  <<"{", "i", "n", "t", "}">>, <<"{", "w", "o", "r", "d", "}">>,
                  <<"{", "s", "t", "r", "i", "n", "g", "}">>}
TextChars == {"a", "A", "5", "-", "\""}

RECURSIVE Flatten(_)
Flatten(ss) == IF ss = <<>> THEN <<>> ELSE Head(ss) \o Flatten(Tail(ss))

MatchPatterns ==
    {Flatten(ps) : ps \in UNION {[1..k -> PatternPieces] : k \in 1..MaxPieces}}
    \cup ExamplePatterns
MatchTexts ==
    UNION {[1..k -> TextChars] : k \in 1..MaxTextLen} \cup ExampleTexts

InitMatch ==
    /\ pc = "match"
    /\ feature_lines = <<>>
    /\ step_decls = <<>>
    /\ \E t \in MatchTexts :
         steps_needed = <<make_step([feature |-> "registration", scenario |-> "Register",
                                     type |-> "When", text |-> t])>>
    /\ \E p \in MatchPatterns :
         step_definitions = <<make_definition(1, "When", p)>>
    /\ mapping_results = EmptyResults
    /\ step_index = 1
    /\ report = NoReport
    /\ SearchIdle
    /\ ToolsIdle

NextMatch == MatchStep

SpecMatch == InitMatch /\ [][NextMatch]_vars

-----------------------------------------------------------------------------
(* update_search_steps (bmad_decide_fix.py): the lines of search-steps.ts  *)
(* are filtered one by one                                                 *)

\* Python's `sub in s`
ContainsText(s, sub) == \E k \in 1..Len(s) : StartsWithAt(s, k, sub)

UpperCase == <<"A", "B", "C", "D", "E", "F", "G", "H", "I", "J", "K", "L", "M",
               "N", "O", "P", "Q", "R", "S", "T", "U", "V", "W", "X", "Y", "Z">>
LowerCase == <<"a", "b", "c", "d", "e", "f", "g", "h", "i", "j", "k", "l", "m",
               "n", "o", "p", "q", "r", "s", "t", "u", "v", "w", "x", "y", "z">>

\* Python's str.lower()
Lower(s) ==
    [k \in 1..Len(s) |->
       IF \E n \in 1..Len(UpperCase) : UpperCase[n] = s[k]
       THEN LowerCase[CHOOSE n \in 1..Len(UpperCase) : UpperCase[n] = s[k]]
       ELSE s[k]]

Whitespace == {" ", "\t"}

\* Python's str.strip()
Strip(s) ==
    LET inked == {k \in 1..Len(s) : s[k] \notin Whitespace} IN
    IF inked = {} THEN <<>>
    ELSE SubSeq(s, CHOOSE k \in inked : \A j \in inked : k <= j,
                   CHOOSE k \in inked : \A j \in inked : k >= j)

\* "When('I click" in line and 'search' not in line.lower()
is_generic_click(line) ==
    /\ ContainsText(line, <<"W", "h", "e", "n", "(", "'", "I", " ", "c", "l", "i", "c", "k">>)
    /\ ~ContainsText(Lower(line), <<"s", "e", "a", "r", "c", "h">>)

\* line.strip().startswith(('When(', 'Then(', 'Given('))
starts_declaration(line) ==
    \/ StartsWithAt(Strip(line), 1, <<"W", "h", "e", "n", "(">>)
    \/ StartsWithAt(Strip(line), 1, <<"T", "h", "e", "n", "(">>)
    \/ StartsWithAt(Strip(line), 1, <<"G", "i", "v", "e", "n", "(">>)

\* The j the while loop stops at: the first declaration line after line i,
\* len(lines) + 1 when there is none (indices from 1)
end_of_body(lines, i) ==
    LET found == {j \in (i + 1)..Len(lines) : starts_declaration(lines[j])} IN
    IF found = {} THEN Len(lines) + 1
    ELSE CHOOSE j \in found : \A k \in found : j <= k

\* `if skip_next: skip_next = False; continue`
SkipLine ==
    /\ pc = "filter"
    /\ line_index <= Len(content_lines)
    /\ skip_next # 0
    /\ skip_next' = 0
    /\ line_index' = line_index + 1
    /\ UNCHANGED <<pc, content_lines, filtered_lines>>
    /\ UNCHANGED measure_vars
    /\ UNCHANGED tool_vars

\* A generic click handler: the line is not kept and skip_next becomes the
\* number of lines of its body, j - i - 1
DropClickHandler ==
    /\ pc = "filter"
    /\ line_index <= Len(content_lines)
    /\ skip_next = 0
    /\ is_generic_click(content_lines[line_index])
    /\ skip_next' = end_of_body(content_lines, line_index) - line_index - 1
    /\ line_index' = line_index + 1
    /\ UNCHANGED <<pc, content_lines, filtered_lines>>
    /\ UNCHANGED measure_vars
    /\ UNCHANGED tool_vars

\* filtered_lines.append(line)
KeepLine ==
    /\ pc = "filter"
    /\ line_index <= Len(content_lines)
    /\ skip_next = 0
    /\ ~is_generic_click(content_lines[line_index])
    /\ filtered_lines' = Append(filtered_lines, content_lines[line_index])
    /\ line_index' = line_index + 1
    /\ UNCHANGED <<pc, content_lines, skip_next>>
    /\ UNCHANGED measure_vars
    /\ UNCHANGED tool_vars

\* The loop is over: the kept lines are joined and written back
WriteFile ==
    /\ pc = "filter"
    /\ line_index > Len(content_lines)
    /\ pc' = "written"
    /\ UNCHANGED search_vars
    /\ UNCHANGED measure_vars
    /\ UNCHANGED tool_vars

NextSearch == SkipLine \/ DropClickHandler \/ KeepLine \/ WriteFile

MaxLines == 3

ClickLine == <<"W", "h", "e", "n", "(", "'", "I", " ", "c", "l", "i", "c", "k", " ", "a", "'", ",">>
ClickSearchLine == <<"W", "h", "e", "n", "(", "'", "I", " ", "c", "l", "i", "c", "k", " ", "S", "e", "a", "r", "c", "h", "'", ",">>
ThenLine == <<"T", "h", "e", "n", "(", "'", "b", "'", ",">>
GivenLine == <<" ", " ", "G", "i", "v", "e", "n", "(", "'", "c", "'", ",">>
BodyLine == <<" ", " ", "d", ";">>
CommentedClickLine == <<"/", "/", " ", "W", "h", "e", "n", "(", "'", "I", " ", "c", "l", "i", "c", "k", " ", "e", "'">>

SearchLines == {ClickLine, ClickSearchLine, ThenLine, GivenLine, BodyLine,
                CommentedClickLine}

InitSearch ==
    /\ pc = "filter"
    /\ content_lines \in SeqsUpTo(SearchLines, MaxLines)
    /\ filtered_lines = <<>>
    /\ skip_next = 0
    /\ line_index = 1
    /\ feature_lines = <<>>
    /\ step_decls = <<>>
    /\ steps_needed = <<>>
    /\ step_definitions = <<>>
    /\ mapping_results = EmptyResults
    /\ step_index = 1
    /\ report = NoReport
    /\ ToolsIdle

SpecSearch == InitSearch /\ [][NextSearch]_vars

-----------------------------------------------------------------------------
(* main of bmad_fix_all_tests.py: BUILD, MEASURE, ANALYZE, DECIDE, VERIFY. *)
(* registration-steps.ts is the sequence of its lines; the result of the   *)
(* test runner is a sequence of features, a feature the sequence of its    *)
(* scenarios, a scenario the sequence of the statuses of its steps.        *)

\* ["\']
QuoteClass == {"\"", "'"}

\* The n-th smallest element of a set of integers
NthOf(S, n) == CHOOSE k \in S : Cardinality({j \in S : j <= k}) = n

\* The elements of seq at the indices idx, in order
Pick(seq, idx) == [n \in 1..Cardinality(idx) |-> seq[NthOf(idx, n)]]

\* (Given|When|Then)\(["\']([^"\']+)["\'] tried at position p of s: the
\* keyword, an opening quote, the characters up to the next quote (at least
\* one), and that quote.  <<>> when it does not match there.
step_def_at(s, p) ==
    LET kws == {kw \in DefTypes : StartsWithAt(s, p, KeywordText(kw) \o <<"(">>)} IN
    IF kws = {} THEN <<>>
    ELSE LET kw == CHOOSE k \in kws : TRUE
             q == p + Len(KeywordText(kw)) + 1
             closes == {r \in (q + 1)..Len(s) : s[r] \in QuoteClass}
         IN IF q > Len(s) \/ s[q] \notin QuoteClass \/ closes = {} THEN <<>>
            ELSE LET r == CHOOSE c \in closes : \A d \in closes : c <= d
                 IN IF r = q + 1 THEN <<>>
                    ELSE <<[keyword |-> kw, pattern |-> SubSeq(s, q + 1, r - 1),
                            end |-> r]>>

\* re.findall of that expression: leftmost matches, none overlapping
RECURSIVE find_step_defs(_, _)
find_step_defs(s, from) ==
    LET hits == {p \in from..Len(s) : step_def_at(s, p) # <<>>} IN
    IF hits = {} THEN <<>>
    ELSE LET m == step_def_at(s, CHOOSE p \in hits : \A o \in hits : p <= o)[1]
         IN <<[keyword |-> m.keyword, pattern |-> m.pattern]>>
              \o find_step_defs(s, m.end + 1)

\* '\n'.join(lines), the text of a file given by its lines
RECURSIVE join_lines(_)
join_lines(file_lines) ==
    IF file_lines = <<>> THEN <<>>
    ELSE IF Len(file_lines) = 1 THEN file_lines[1]
    ELSE file_lines[1] \o <<"\n">> \o join_lines(Tail(file_lines))

\* f"{keyword} {pattern}"
key_of(keyword, pattern) == KeywordText(keyword) \o <<" ">> \o pattern

\* analyze_current_state, check 2: one entry for every definition whose key
\* was seen before (seen[key] stays 1, so count is always 2)
registration_duplicates(file_lines) ==
    LET step_defs == find_step_defs(join_lines(file_lines), 1)
        again == {k \in 1..Len(step_defs) :
                    \E j \in 1..(k - 1) :
                       key_of(step_defs[j].keyword, step_defs[j].pattern)
                         = key_of(step_defs[k].keyword, step_defs[k].pattern)}
    IN [n \in 1..Cardinality(again) |->
          [pattern |-> step_defs[NthOf(again, n)].pattern,
           keyword |-> step_defs[NthOf(again, n)].keyword,
           count |-> 2]]

\* analyze_current_state, check 4: the steps of the dry run whose status is
\* undefined, by feature, scenario and step number
undefined_steps_of(results) ==
    UNION {UNION {{<<f, e, k>> : k \in {n \in 1..Len(results[f][e]) :
                                          results[f][e][n] = "undefined"}} :
                  e \in 1..Len(results[f])} :
           f \in 1..Len(results)}

\* step.get("result", {}).get("status", "undefined")
status_of(step) == IF step = "missing" THEN "undefined" ELSE step

\* The statuses that set scenario_failed
FailingStatuses == {"undefined", "ambiguous", "failed"}

\* The number of steps of a scenario with the given status
steps_with(scenario, status) ==
    Cardinality({k \in 1..Len(scenario) : status_of(scenario[k]) = status})

\* Mutant: a scenario is counted once for each failing step
failed_count_per_step(scenario) ==
    Cardinality({k \in 1..Len(scenario) : status_of(scenario[k]) \in FailingStatuses})

\* What a scenario adds to failed_scenarios: 1 when scenario_failed was set
failed_count(scenario) ==
    IF \E k \in 1..Len(scenario) : status_of(scenario[k]) \in FailingStatuses
    THEN 1 ELSE 0

\* The loop over the elements of one feature, added to the metrics m
RECURSIVE measure_feature(_, _)
measure_feature(m, feature) ==
    IF feature = <<>> THEN m
    ELSE LET scenario == Head(feature) IN
         measure_feature(
           [m EXCEPT !.total_scenarios = @ + 1,
                     !.undefined_steps = @ + steps_with(scenario, "undefined"),
                     !.ambiguous_steps = @ + steps_with(scenario, "ambiguous"),
                     !.failed_steps = @ + steps_with(scenario, "failed"),
                     !.failed_scenarios = @ + failed_count(scenario)],
           Tail(feature))

ZeroMetrics == [total_features |-> 0, failed_features |-> 0,
                total_scenarios |-> 0, failed_scenarios |-> 0,
                undefined_steps |-> 0, ambiguous_steps |-> 0, failed_steps |-> 0]

\* The loop over the features: feature_failed is set when the feature
\* added to failed_scenarios
RECURSIVE measure_features(_, _)
measure_features(m, features) ==
    IF features = <<>> THEN m
    ELSE LET after == measure_feature(m, Head(features)) IN
         measure_features(
           IF after.failed_scenarios > m.failed_scenarios
           THEN [after EXCEPT !.failed_features = @ + 1] ELSE after,
           Tail(features))

measure_failures(results) ==
    measure_features([ZeroMetrics EXCEPT !.total_features = Len(results)], results)

\* re.match of the step-definition expression at the start of the line
line_match(line) == step_def_at(line, 1)

\* `if pattern in seen_patterns`
is_duplicate_never(key, seen) == FALSE

is_duplicate(key, seen) == key \in seen

fix_frame == <<feature_lines, step_decls, steps_needed, step_definitions,
               mapping_results, step_index, report, skip_next,
               runs, result, printed, failures, current_scenario, server_proc>>

\* BUILD: analyze_current_state.  The table of the profile feature and the
\* amount parameter type of cucumber.js are looked for, the duplicates of
\* registration-steps.ts are listed, and the undefined steps of a dry run
\* are collected.
AnalyzeCurrentState ==
    /\ pc = "BUILD"
    /\ issues' = [profile_table |-> file_system.profile_feature_has_table,
                  registration_duplicates |->
                      registration_duplicates(file_system.registration_steps),
                  missing_parameters |->
                      IF file_system.cucumber_js_has_amount THEN <<>> ELSE <<"amount">>,
                  undefined_steps |-> undefined_steps_of(test_results)]
    /\ phases' = Append(phases, "BUILD")
    /\ pc' = "MEASURE"
    /\ UNCHANGED <<file_system, test_results, metrics, seen_patterns, in_duplicate,
                   fixes_applied, exit_code, content_lines, filtered_lines, line_index>>
    /\ UNCHANGED fix_frame

\* MEASURE: measure_failures
MeasureFailures ==
    /\ pc = "MEASURE"
    /\ metrics' = measure_failures(test_results)
    /\ phases' = Append(phases, "MEASURE")
    /\ pc' = "ANALYZE"
    /\ UNCHANGED <<file_system, test_results, issues, seen_patterns, in_duplicate,
                   fixes_applied, exit_code, content_lines, filtered_lines, line_index>>
    /\ UNCHANGED fix_frame

\* ANALYZE: analyze_root_causes builds a dictionary of fixed texts
AnalyzeRootCauses ==
    /\ pc = "ANALYZE"
    /\ phases' = Append(phases, "ANALYZE")
    /\ pc' = "DECIDE"
    /\ UNCHANGED <<file_system, test_results, issues, metrics, seen_patterns,
                   in_duplicate, fixes_applied, exit_code,
                   content_lines, filtered_lines, line_index>>
    /\ UNCHANGED fix_frame

\* DECIDE, fix 1: the table step of profile-steps.ts is rewritten (its text
\* is not modelled) and the fix is reported.  Fix 2 then reads the lines of
\* registration-steps.ts.
FixProfileTable ==
    /\ pc = "DECIDE"
    /\ phases' = Append(phases, "DECIDE")
    /\ fixes_applied' = IF issues.profile_table
                        THEN Append(fixes_applied, <<"Fixed profile table step implementation">>)
                        ELSE fixes_applied
    /\ content_lines' = IF issues.registration_duplicates # <<>>
                        THEN file_system.registration_steps ELSE content_lines
    /\ pc' = "duplicates"
    /\ UNCHANGED <<file_system, test_results, issues, metrics, seen_patterns,
                   in_duplicate, exit_code, filtered_lines, line_index>>
    /\ UNCHANGED fix_frame

\* `if issues["registration_duplicates"]` is false: fix 2 is skipped
NoDuplicates ==
    /\ pc = "duplicates"
    /\ issues.registration_duplicates = <<>>
    /\ pc' = "parameters"
    /\ UNCHANGED <<file_system, test_results, issues, metrics, seen_patterns,
                   in_duplicate, fixes_applied, phases, exit_code,
                   content_lines, filtered_lines, line_index>>
    /\ UNCHANGED fix_frame

\* The line starts a definition whose key was seen: in_duplicate = True; continue
DuplicateHeader ==
    /\ pc = "duplicates"
    /\ issues.registration_duplicates # <<>>
    /\ line_index <= Len(content_lines)
    /\ line_match(content_lines[line_index]) # <<>>
    /\ LET m == line_match(content_lines[line_index])[1]
       IN is_duplicate(key_of(m.keyword, m.pattern), seen_patterns)
    /\ in_duplicate' = TRUE
    /\ line_index' = line_index + 1
    /\ UNCHANGED <<pc, file_system, test_results, issues, metrics, seen_patterns,
                   fixes_applied, phases, exit_code, content_lines, filtered_lines>>
    /\ UNCHANGED fix_frame

\* The line starts a definition whose key is new: the key is recorded,
\* in_duplicate = False, and the line is kept
NewHeader ==
    /\ pc = "duplicates"
    /\ issues.registration_duplicates # <<>>
    /\ line_index <= Len(content_lines)
    /\ line_match(content_lines[line_index]) # <<>>
    /\ LET m == line_match(content_lines[line_index])[1]
       IN /\ ~is_duplicate(key_of(m.keyword, m.pattern), seen_patterns)
          /\ seen_patterns' = seen_patterns \cup {key_of(m.keyword, m.pattern)}
    /\ in_duplicate' = FALSE
    /\ filtered_lines' = Append(filtered_lines, content_lines[line_index])
    /\ line_index' = line_index + 1
    /\ UNCHANGED <<pc, file_system, test_results, issues, metrics,
                   fixes_applied, phases, exit_code, content_lines>>
    /\ UNCHANGED fix_frame

\* Any other line outside a duplicate: filtered_lines.append(line)
RetainLine ==
    /\ pc = "duplicates"
    /\ issues.registration_duplicates # <<>>
    /\ line_index <= Len(content_lines)
    /\ line_match(content_lines[line_index]) = <<>>
    /\ ~in_duplicate
    /\ filtered_lines' = Append(filtered_lines, content_lines[line_index])
    /\ line_index' = line_index + 1
    /\ UNCHANGED <<pc, file_system, test_results, issues, metrics, seen_patterns,
                   in_duplicate, fixes_applied, phases, exit_code, content_lines>>
    /\ UNCHANGED fix_frame

\* Any other line inside a duplicate is not kept; `});` ends the duplicate
DropLine ==
    /\ pc = "duplicates"
    /\ issues.registration_duplicates # <<>>
    /\ line_index <= Len(content_lines)
    /\ line_match(content_lines[line_index]) = <<>>
    /\ in_duplicate
    /\ in_duplicate' = (Strip(content_lines[line_index]) # <<"}", ")", ";">>)
    /\ line_index' = line_index + 1
    /\ UNCHANGED <<pc, file_system, test_results, issues, metrics, seen_patterns,
                   fixes_applied, phases, exit_code, content_lines, filtered_lines>>
    /\ UNCHANGED fix_frame

\* reg_steps.write_text('\n'.join(filtered_lines)), and the fix is reported
\* with the number of duplicates that BUILD found
WriteRegistration ==
    /\ pc = "duplicates"
    /\ issues.registration_duplicates # <<>>
    /\ line_index > Len(content_lines)
    /\ file_system' = [file_system EXCEPT !.registration_steps = filtered_lines]
    /\ fixes_applied' = Append(fixes_applied,
                               <<"Removed", Len(issues.registration_duplicates),
                                 "duplicate step definitions">>)
    /\ pc' = "parameters"
    /\ UNCHANGED <<test_results, issues, metrics, seen_patterns, in_duplicate,
                   phases, exit_code, content_lines, filtered_lines, line_index>>
    /\ UNCHANGED fix_frame

\* Fix 3: the amount parameter type is added to cucumber.js
AddParameterTypes ==
    /\ pc = "parameters"
    /\ file_system' = IF issues.missing_parameters # <<>>
                      THEN [file_system EXCEPT !.cucumber_js_has_amount = TRUE]
                      ELSE file_system
    /\ fixes_applied' = IF issues.missing_parameters # <<>>
                        THEN Append(fixes_applied, <<"Added amount parameter type definition">>)
                        ELSE fixes_applied
    /\ pc' = "undefined"
    /\ UNCHANGED <<test_results, issues, metrics, seen_patterns, in_duplicate,
                   phases, exit_code, content_lines, filtered_lines, line_index>>
    /\ UNCHANGED fix_frame

\* Fix 4 starts with `if metrics.get("undefined_steps", 0) > 0`.  metrics is
\* a local variable of main: it is neither a parameter of
\* implement_all_fixes nor a name of the module, so evaluating it raises
\* NameError, whatever the issues are.
ImplementUndefinedSteps ==
    /\ pc = "undefined"
    /\ pc' = "NameError"
    /\ UNCHANGED <<file_system, test_results, issues, metrics, seen_patterns,
                   in_duplicate, fixes_applied, phases, exit_code,
                   content_lines, filtered_lines, line_index>>
    /\ UNCHANGED fix_frame

\* Nothing catches the exception: it leaves implement_all_fixes and main,
\* and the interpreter exits with code 1
ExitOnException ==
    /\ pc = "NameError"
    /\ exit_code' = 1
    /\ pc' = "exited"
    /\ UNCHANGED <<file_system, test_results, issues, metrics, seen_patterns,
                   in_duplicate, fixes_applied, phases,
                   content_lines, filtered_lines, line_index>>
    /\ UNCHANGED fix_frame

NextFix ==
    \/ AnalyzeCurrentState \/ MeasureFailures \/ AnalyzeRootCauses
    \/ FixProfileTable \/ NoDuplicates
    \/ DuplicateHeader \/ NewHeader \/ RetainLine \/ DropLine \/ WriteRegistration
    \/ AddParameterTypes \/ ImplementUndefinedSteps \/ ExitOnException

MaxFixLines == 3
MaxTokens == 6

DefA == <<"G", "i", "v", "e", "n", "(", "'", "a", "'", ",">>
DefAOneLine == <<"G", "i", "v", "e", "n", "(", "'", "a", "'", ",", " ", "f", ")", ";">>
DefADoubleQuoted == <<"G", "i", "v", "e", "n", "(", "\"", "a", "\"", ",">>
WhenA == <<"W", "h", "e", "n", "(", "'", "a", "'", ",">>
IndentedDefA == <<" ", " ", "G", "i", "v", "e", "n", "(", "'", "a", "'", ",">>
Closing == <<"}", ")", ";">>
InnerClosing == <<" ", " ", "}", ")", ";">>
Statement == <<" ", " ", "b", ";">>

RegistrationLines == {DefA, DefAOneLine, DefADoubleQuoted, WhenA, IndentedDefA,
                      Closing, InnerClosing, Statement}

Statuses == {"passed", "failed", "ambiguous", "undefined", "missing"}

\* A result written flat: "Feature" opens a feature, "Scenario" a scenario
\* of the feature, and a status is a step of the scenario
FlatResults ==
    {t \in SeqsUpTo(Statuses \cup {"Feature", "Scenario"}, MaxTokens) :
       /\ t # <<>> => t[1] = "Feature"
       /\ \A k \in 2..Len(t) : t[k] \in Statuses => t[k - 1] # "Feature"}

\* The part of t that an opener at position p owns: up to the next token
\* that is one of the closers
Owned(t, p, closers) ==
    LET stops == {k \in (p + 1)..Len(t) : t[k] \in closers} IN
    SubSeq(t, p + 1, IF stops = {} THEN Len(t)
                     ELSE (CHOOSE k \in stops : \A j \in stops : k <= j) - 1)

\* The parts owned by the openers of t, in order
Parts(t, opener, closers) ==
    LET at == {k \in 1..Len(t) : t[k] = opener} IN
    [n \in 1..Cardinality(at) |-> Owned(t, NthOf(at, n), closers)]

\* The nested result a flat one stands for
Nested(t) ==
    LET features == Parts(t, "Feature", {"Feature"}) IN
    [f \in 1..Len(features) |-> Parts(features[f], "Scenario", {"Scenario"})]

\* Every result of the test runner within the bound
AllTestResults == {Nested(t) : t \in FlatResults}

\* The results main is run with: nothing, one passing and one undefined step
FixTestResults == {<<>>, << << <<"passed">> >> >>, << << <<"undefined", "passed">> >> >>}

InitFix ==
    /\ pc = "BUILD"
    /\ \E reg \in SeqsUpTo(RegistrationLines, MaxFixLines), table, amount \in BOOLEAN :
         file_system = [registration_steps |-> reg,
                        profile_feature_has_table |-> table,
                        cucumber_js_has_amount |-> amount]
    /\ test_results \in FixTestResults
    /\ issues = None
    /\ metrics = None
    /\ seen_patterns = {}
    /\ in_duplicate = FALSE
    /\ fixes_applied = <<>>
    /\ phases = <<>>
    /\ exit_code = None
    /\ runs = <<>>
    /\ result = None
    /\ printed = <<>>
    /\ failures = None
    /\ current_scenario = <<>>
    /\ server_proc = None
    /\ SearchIdle
    /\ MeasureIdle

SpecFix == InitFix /\ [][NextFix]_vars

\* measure_failures on its own, on every result within the bounds
InitMeasure ==
    /\ pc = "MEASURE"
    /\ test_results \in AllTestResults
    /\ file_system = <<>>
    /\ issues = None
    /\ metrics = None
    /\ seen_patterns = {}
    /\ in_duplicate = FALSE
    /\ fixes_applied = <<>>
    /\ phases = <<"BUILD">>
    /\ exit_code = None
    /\ runs = <<>>
    /\ result = None
    /\ printed = <<>>
    /\ failures = None
    /\ current_scenario = <<>>
    /\ server_proc = None
    /\ SearchIdle
    /\ MeasureIdle

NextMeasure == MeasureFailures

SpecMeasure == InitMeasure /\ [][NextMeasure]_vars

-----------------------------------------------------------------------------
(* implement_fixes of bmad_decide_fix.py: form-steps.ts and                *)
(* profile-steps.ts are written, navigation-steps.ts is replaced, appended *)
(* to or created, search-steps.ts is filtered by update_search_steps, the  *)
(* tests are run and the DECIDE report is saved.                           *)

\* The texts implement_fixes writes, piece by piece: the imports, then each
\* definition with its body, up to the next definition.  A piece has the
\* keyword and the pattern of its definition (none for other text), its
\* length in characters, and the whitespace it starts and ends with.
FORM_STEPS_CONTENT ==
  <<[keyword |-> "", pattern |-> "imports", length |-> 241, lead |-> 0, trail |-> 1],
    [keyword |-> "When", pattern |-> "I fill in {string} with {string}", length |-> 1313, lead |-> 0, trail |-> 1],
    [keyword |-> "When", pattern |-> "I click the {string} button", length |-> 1003, lead |-> 0, trail |-> 1],
    [keyword |-> "Then", pattern |-> "I should see {string}", length |-> 213, lead |-> 0, trail |-> 1],
    [keyword |-> "When", pattern |-> "I submit the form", length |-> 191, lead |-> 0, trail |-> 1],
    [keyword |-> "When", pattern |-> "I check {string}", length |-> 217, lead |-> 0, trail |-> 2],
    [keyword |-> "When", pattern |-> "I uncheck {string}", length |-> 246, lead |-> 0, trail |-> 1],
    [keyword |-> "When", pattern |-> "I select {string} from {string}", length |-> 632, lead |-> 0, trail |-> 1],
    [keyword |-> "Then", pattern |-> "the {string} field should contain {string}", length |-> 1024, lead |-> 0, trail |-> 1],
    [keyword |-> "When", pattern |-> "I clear the {string} field", length |-> 797, lead |-> 0, trail |-> 1]>>

PROFILE_STEPS_UPDATE ==
  <<[keyword |-> "", pattern |-> "imports", length |-> 173, lead |-> 0, trail |-> 1],
    [keyword |-> "Given", pattern |-> "I am on my profile page", length |-> 177, lead |-> 0, trail |-> 2],
    [keyword |-> "When", pattern |-> "I navigate to my profile", length |-> 131, lead |-> 0, trail |-> 2],
    [keyword |-> "Then", pattern |-> "I should see my profile information", length |-> 251, lead |-> 0, trail |-> 1],
    [keyword |-> "When", pattern |-> "I click on {string}", length |-> 155, lead |-> 0, trail |-> 2],
    [keyword |-> "When", pattern |-> "I update my {string} to {string}", length |-> 499, lead |-> 0, trail |-> 2],
    [keyword |-> "When", pattern |-> "I save my profile changes", length |-> 185, lead |-> 0, trail |-> 2],
    [keyword |-> "Then", pattern |-> "I should see {string}", length |-> 179, lead |-> 0, trail |-> 2],
    [keyword |-> "Then", pattern |-> "my profile should display {string} as {string}", length |-> 237, lead |-> 0, trail |-> 1]>>

NAVIGATION_STEPS_UPDATE ==
  <<[keyword |-> "", pattern |-> "imports", length |-> 171, lead |-> 0, trail |-> 1],
    [keyword |-> "Given", pattern |-> "I am on the {string} page", length |-> 484, lead |-> 0, trail |-> 2],
    [keyword |-> "When", pattern |-> "I navigate to the {string} page", length |-> 443, lead |-> 0, trail |-> 2],
    [keyword |-> "When", pattern |-> "I click on the {string} link", length |-> 171, lead |-> 0, trail |-> 2],
    [keyword |-> "Then", pattern |-> "I should be on the {string} page", length |-> 507, lead |-> 0, trail |-> 1],
    [keyword |-> "When", pattern |-> "I go back", length |-> 108, lead |-> 0, trail |-> 2],
    [keyword |-> "When", pattern |-> "I go forward", length |-> 114, lead |-> 0, trail |-> 2],
    [keyword |-> "When", pattern |-> "I refresh the page", length |-> 137, lead |-> 0, trail |-> 1],
    [keyword |-> "Then", pattern |-> "the URL should contain {string}", length |-> 176, lead |-> 0, trail |-> 1]>>

\* "\n\n// Additional navigation steps\n"
AdditionalMarker ==
    [keyword |-> "", pattern |-> "// Additional navigation steps",
     length |-> 33, lead |-> 2, trail |-> 1]

\* A file that does not exist
Absent == <<[keyword |-> "", pattern |-> "no such file", length |-> 0,
             lead |-> 0, trail |-> 0]>>

RECURSIVE total_length(_)
total_length(content) ==
    IF content = <<>> THEN 0 ELSE Head(content).length + total_length(Tail(content))

\* len(existing_content.strip())
stripped_length(content) ==
    LET inked == {k \in 1..Len(content) : content[k].lead < content[k].length} IN
    IF inked = {} THEN 0
    ELSE LET first == CHOOSE k \in inked : \A j \in inked : k <= j
             last == CHOOSE k \in inked : \A j \in inked : k >= j
         IN total_length(SubSeq(content, first, last))
              - content[first].lead - content[last].trail

SixScenarios == <<"6", " ", "s", "c", "e", "n", "a", "r", "i", "o", "s">>
SixPassed == <<"6", " ", "p", "a", "s", "s", "e", "d">>

\* '6 scenarios' in output and '6 passed' in output
success_printed(text) == ContainsText(text, SixScenarios) /\ ContainsText(text, SixPassed)

\* '6 passed' in output
success_flag(text) == ContainsText(text, SixPassed)

\* What the test command prints
OutputAllPassed == <<"6", " ", "s", "c", "e", "n", "a", "r", "i", "o", "s", " ", "(", "6", " ", "p", "a", "s", "s", "e", "d", ")", "\n", "2", "4", " ", "s", "t", "e", "p", "s", " ", "(", "2", "4", " ", "p", "a", "s", "s", "e", "d", ")">>
OutputOneFailed == <<"6", " ", "s", "c", "e", "n", "a", "r", "i", "o", "s", " ", "(", "5", " ", "p", "a", "s", "s", "e", "d", ",", " ", "1", " ", "f", "a", "i", "l", "e", "d", ")", "\n", "2", "4", " ", "s", "t", "e", "p", "s", " ", "(", "2", "3", " ", "p", "a", "s", "s", "e", "d", ",", " ", "1", " ", "f", "a", "i", "l", "e", "d", ")">>
OutputThreeOfThree == <<"3", " ", "s", "c", "e", "n", "a", "r", "i", "o", "s", " ", "(", "3", " ", "p", "a", "s", "s", "e", "d", ")", "\n", "1", "6", " ", "s", "t", "e", "p", "s", " ", "(", "1", "6", " ", "p", "a", "s", "s", "e", "d", ")">>
OutputSixteen == <<"1", "6", " ", "s", "c", "e", "n", "a", "r", "i", "o", "s", " ", "(", "1", "6", " ", "p", "a", "s", "s", "e", "d", ")", "\n", "6", "4", " ", "s", "t", "e", "p", "s", " ", "(", "6", "4", " ", "p", "a", "s", "s", "e", "d", ")">>
OutputNpmError == <<"n", "p", "m", " ", "E", "R", "R", "!", " ", "m", "i", "s", "s", "i", "n", "g", " ", "s", "c", "r", "i", "p", "t", ":", " ", "t", "e", "s", "t", ":", "b", "d", "d">>

decide_frame == <<feature_lines, step_decls, steps_needed, step_definitions,
                  mapping_results, step_index, issues, test_results, metrics,
                  seen_patterns, in_duplicate, fixes_applied, phases, exit_code,
                  failures, current_scenario, server_proc>>

\* 1. form-steps.ts is written
WriteFormSteps ==
    /\ pc = "form"
    /\ file_system' = [file_system EXCEPT !.form_steps = FORM_STEPS_CONTENT]
    /\ pc' = "profile"
    /\ UNCHANGED <<runs, result, printed, report, search_vars>>
    /\ UNCHANGED decide_frame

\* 2. profile-steps.ts is written
WriteProfileSteps ==
    /\ pc = "profile"
    /\ file_system' = [file_system EXCEPT !.profile_steps = PROFILE_STEPS_UPDATE]
    /\ pc' = "navigation"
    /\ UNCHANGED <<runs, result, printed, report, search_vars>>
    /\ UNCHANGED decide_frame

\* 3. navigation-steps.ts exists and is mostly empty: it is replaced
ReplaceNavigation ==
    /\ pc = "navigation"
    /\ file_system.navigation_steps # Absent
    /\ stripped_length(file_system.navigation_steps) < 200
    /\ file_system' = [file_system EXCEPT !.navigation_steps = NAVIGATION_STEPS_UPDATE]
    /\ pc' = "search"
    /\ UNCHANGED <<runs, result, printed, report, search_vars>>
    /\ UNCHANGED decide_frame

\* 3. navigation-steps.ts exists with content: the marker and the steps are
\* appended
AppendNavigation ==
    /\ pc = "navigation"
    /\ file_system.navigation_steps # Absent
    /\ stripped_length(file_system.navigation_steps) >= 200
    /\ file_system' = [file_system EXCEPT !.navigation_steps =
                           @ \o <<AdditionalMarker>> \o NAVIGATION_STEPS_UPDATE]
    /\ pc' = "search"
    /\ UNCHANGED <<runs, result, printed, report, search_vars>>
    /\ UNCHANGED decide_frame

\* 3. navigation-steps.ts does not exist: it is created
CreateNavigation ==
    /\ pc = "navigation"
    /\ file_system.navigation_steps = Absent
    /\ file_system' = [file_system EXCEPT !.navigation_steps = NAVIGATION_STEPS_UPDATE]
    /\ pc' = "search"
    /\ UNCHANGED <<runs, result, printed, report, search_vars>>
    /\ UNCHANGED decide_frame

\* 4. update_search_steps reads search-steps.ts: in the first run the lines
\* the file has at the start, afterwards the lines the run before wrote
ReadSearchSteps ==
    /\ pc = "search"
    /\ content_lines' = IF Len(runs) = 1 THEN content_lines ELSE filtered_lines
    /\ filtered_lines' = <<>>
    /\ skip_next' = 0
    /\ line_index' = 1
    /\ pc' = "filter"
    /\ UNCHANGED <<file_system, runs, result, printed, report>>
    /\ UNCHANGED decide_frame

\* 5. The tests are run
RunTests ==
    /\ pc = "written"
    /\ \E out \in {OutputAllPassed, OutputOneFailed, OutputThreeOfThree,
                   OutputSixteen, <<>>},
          err \in {<<>>, OutputNpmError} :
          result' = [stdout |-> out, stderr |-> err]
    /\ pc' = "parse"
    /\ UNCHANGED <<file_system, runs, printed, report, search_vars>>
    /\ UNCHANGED decide_frame

\* output = result.stdout + result.stderr holds both markers
PrintSuccess ==
    /\ pc = "parse"
    /\ success_printed(result.stdout \o result.stderr)
    /\ printed' = Append(printed, "SUCCESS! All tests are now passing!")
    /\ pc' = "report"
    /\ UNCHANGED <<file_system, runs, result, report, search_vars>>
    /\ UNCHANGED decide_frame

PrintWarning ==
    /\ pc = "parse"
    /\ ~success_printed(result.stdout \o result.stderr)
    /\ printed' = Append(printed, "Some tests may still be failing")
    /\ pc' = "report"
    /\ UNCHANGED <<file_system, runs, result, report, search_vars>>
    /\ UNCHANGED decide_frame

\* The report is built and saved, and the run ends
SaveReport ==
    /\ pc = "report"
    /\ report' = [phase |-> "DECIDE",
                  test_output |-> result.stdout \o result.stderr,
                  success |-> success_flag(result.stdout \o result.stderr)]
    /\ runs' = Append(runs, file_system.navigation_steps)
    /\ pc' = "returned"
    /\ UNCHANGED <<file_system, result, printed, search_vars>>
    /\ UNCHANGED decide_frame

MaxRuns == 2

\* The script is run again, on the files the run before left
RunAgain ==
    /\ pc = "returned"
    /\ Len(runs) - 1 < MaxRuns
    /\ printed' = <<>>
    /\ result' = None
    /\ report' = NoReport
    /\ pc' = "form"
    /\ UNCHANGED <<file_system, runs, search_vars>>
    /\ UNCHANGED decide_frame

NextDecide ==
    \/ WriteFormSteps \/ WriteProfileSteps
    \/ ReplaceNavigation \/ AppendNavigation \/ CreateNavigation
    \/ ReadSearchSteps \/ SkipLine \/ DropClickHandler \/ KeepLine \/ WriteFile
    \/ RunTests \/ PrintSuccess \/ PrintWarning \/ SaveReport \/ RunAgain

MaxCustom == 2

\* What navigation-steps.ts can hold before the first run: a step of the
\* project, and blank lines
CustomStep == [keyword |-> "When", pattern |-> "I open the menu",
               length |-> 150, lead |-> 0, trail |-> 1]
BlankLines == [keyword |-> "", pattern |-> "", length |-> 60, lead |-> 60, trail |-> 60]

InitDecide ==
    /\ pc = "form"
    /\ \E nav \in {Absent} \cup SeqsUpTo({CustomStep, BlankLines}, MaxCustom) :
         /\ file_system = [form_steps |-> Absent, profile_steps |-> Absent,
                           navigation_steps |-> nav]
         /\ runs = <<nav>>
    /\ content_lines \in SeqsUpTo({ClickLine, ThenLine, BodyLine}, MaxLines)
    /\ filtered_lines = <<>>
    /\ skip_next = 0
    /\ line_index = 1
    /\ result = None
    /\ printed = <<>>
    /\ issues = None
    /\ test_results = <<>>
    /\ metrics = None
    /\ seen_patterns = {}
    /\ in_duplicate = FALSE
    /\ fixes_applied = <<>>
    /\ phases = <<>>
    /\ exit_code = None
    /\ failures = None
    /\ current_scenario = <<>>
    /\ server_proc = None
    /\ MeasureIdle

SpecDecide == InitDecide /\ [][NextDecide]_vars

-----------------------------------------------------------------------------
(* run_tests_and_analyze of bmad_build_analysis.py: the lines the test     *)
(* command printed, stdout first and stderr after it, are sorted into the  *)
(* lists undefined, ambiguous, failed and passed under the scenario line   *)
(* last seen.                                                              *)

\* The character U+2713
CheckMark == "check mark"

UndefinedWord == <<"u", "n", "d", "e", "f", "i", "n", "e", "d">>
AmbiguousWord == <<"a", "m", "b", "i", "g", "u", "o", "u", "s">>
FailedWord == <<"f", "a", "i", "l", "e", "d">>
PassedWord == <<"p", "a", "s", "s", "e", "d">>
ScenarioMark == <<"S", "c", "e", "n", "a", "r", "i", "o", ":">>
StepsWord == <<"s", "t", "e", "p", "s">>
ErrorWord == <<"E", "r", "r", "o", "r">>

\* Python's text.split('\n'): the pieces between the newlines, one more than
\* there are newlines
split_lines(text) ==
    LET breaks == {k \in 1..Len(text) : text[k] = "\n"}
        start(n) == IF n = 1 THEN 1 ELSE NthOf(breaks, n - 1) + 1
        stop(n) == IF n = Cardinality(breaks) + 1 THEN Len(text)
                   ELSE NthOf(breaks, n) - 1
    IN [n \in 1..(Cardinality(breaks) + 1) |-> SubSeq(text, start(n), stop(n))]

\* The list a line goes to, by the first test of the elif chain that the
\* line passes; "none" when it passes none
list_of(line) ==
    IF ContainsText(Lower(line), UndefinedWord) THEN "undefined"
    ELSE IF ContainsText(Lower(line), AmbiguousWord) THEN "ambiguous"
    ELSE IF ContainsText(Lower(line), FailedWord) THEN "failed"
    ELSE IF Contains(line, CheckMark) \/ ContainsText(Lower(line), PassedWord) THEN "passed"
    ELSE "none"

\* `and current_scenario` without the test
scenario_seen_always(scenario) == TRUE

\* `and current_scenario`: None and the empty text count as false
scenario_seen(scenario) == scenario # <<>>

NoFailures == [undefined |-> <<>>, ambiguous |-> <<>>, failed |-> <<>>, passed |-> <<>>]

analysis_frame == <<feature_lines, step_decls, steps_needed, step_definitions,
                    mapping_results, step_index, filtered_lines, skip_next,
                    file_system, issues, test_results, metrics, seen_patterns,
                    in_duplicate, fixes_applied, phases, exit_code, runs,
                    printed, server_proc>>

\* The tests have run: output_lines + stderr_lines
SplitOutput ==
    /\ pc = "split"
    /\ content_lines' = split_lines(result.stdout) \o split_lines(result.stderr)
    /\ failures' = NoFailures
    /\ current_scenario' = <<>>
    /\ line_index' = 1
    /\ pc' = "analyze"
    /\ UNCHANGED <<result, report>>
    /\ UNCHANGED analysis_frame

\* `if 'Scenario:' in line: current_scenario = line.strip()`
SetScenario ==
    /\ pc = "analyze"
    /\ line_index <= Len(content_lines)
    /\ ContainsText(content_lines[line_index], ScenarioMark)
    /\ current_scenario' = Strip(content_lines[line_index])
    /\ line_index' = line_index + 1
    /\ UNCHANGED <<pc, content_lines, failures, result, report>>
    /\ UNCHANGED analysis_frame

\* One of the four elif branches appends the line to its list
RecordLine ==
    /\ pc = "analyze"
    /\ line_index <= Len(content_lines)
    /\ ~ContainsText(content_lines[line_index], ScenarioMark)
    /\ list_of(content_lines[line_index]) # "none"
    /\ scenario_seen(current_scenario)
    /\ failures' = [failures EXCEPT ![list_of(content_lines[line_index])] =
                       Append(@, [scenario |-> current_scenario,
                                  step |-> Strip(content_lines[line_index])])]
    /\ line_index' = line_index + 1
    /\ UNCHANGED <<pc, content_lines, current_scenario, result, report>>
    /\ UNCHANGED analysis_frame

\* No branch takes the line
IgnoreLine ==
    /\ pc = "analyze"
    /\ line_index <= Len(content_lines)
    /\ ~ContainsText(content_lines[line_index], ScenarioMark)
    /\ \/ list_of(content_lines[line_index]) = "none"
       \/ ~scenario_seen(current_scenario)
    /\ line_index' = line_index + 1
    /\ UNCHANGED <<pc, content_lines, failures, current_scenario, result, report>>
    /\ UNCHANGED analysis_frame

\* The BUILD report is saved with the lists
SaveBuildReport ==
    /\ pc = "analyze"
    /\ line_index > Len(content_lines)
    /\ report' = [phase |-> "BUILD", issues |-> failures]
    /\ pc' = "saved"
    /\ UNCHANGED <<content_lines, line_index, failures, current_scenario, result>>
    /\ UNCHANGED analysis_frame

NextAnalysis == SplitOutput \/ SetScenario \/ RecordLine \/ IgnoreLine \/ SaveBuildReport

MaxOutputLines == 3

ScenarioLine == <<" ", " ", "S", "c", "e", "n", "a", "r", "i", "o", ":", " ", "a">>
ScenarioFailedLine == <<"S", "c", "e", "n", "a", "r", "i", "o", ":", " ", "b", " ", "f", "a", "i", "l", "e", "d">>
UndefinedLine == <<"?", " ", "U", "n", "d", "e", "f", "i", "n", "e", "d">>
UndefinedFailedLine == <<"u", "n", "d", "e", "f", "i", "n", "e", "d", ",", " ", "f", "a", "i", "l", "e", "d">>
AmbiguousLine == <<"x", " ", "a", "m", "b", "i", "g", "u", "o", "u", "s">>
FailedLine == <<"x", " ", "f", "a", "i", "l", "e", "d">>
TickLine == <<" ", " ", CheckMark, " ", "o", "k">>
PassedLine == <<"3", " ", "p", "a", "s", "s", "e", "d">>
TraceLine == <<" ", " ", "a", "t", " ", "x">>

AnalysisLines == {ScenarioLine, ScenarioFailedLine, UndefinedLine, UndefinedFailedLine,
                  AmbiguousLine, FailedLine, TickLine, PassedLine, TraceLine}

InitAnalysis ==
    /\ pc = "split"
    /\ \E out \in SeqsUpTo(AnalysisLines, MaxOutputLines),
          err \in {<<>>, <<FailedLine>>, <<ScenarioLine, PassedLine>>} :
          result = [stdout |-> join_lines(out), stderr |-> join_lines(err)]
    /\ content_lines = <<>>
    /\ filtered_lines = <<>>
    /\ skip_next = 0
    /\ line_index = 1
    /\ failures = None
    /\ current_scenario = <<>>
    /\ file_system = <<>>
    /\ issues = None
    /\ test_results = <<>>
    /\ metrics = None
    /\ seen_patterns = {}
    /\ in_duplicate = FALSE
    /\ fixes_applied = <<>>
    /\ phases = <<>>
    /\ exit_code = None
    /\ runs = <<>>
    /\ printed = <<>>
    /\ server_proc = None
    /\ MeasureIdle

SpecAnalysis == InitAnalysis /\ [][NextAnalysis]_vars

-----------------------------------------------------------------------------
(* verify_bmad_fixes.py: the test servers are started, the tests are run   *)
(* inside try, the server process is terminated in finally, and the        *)
(* summary is printed.                                                     *)

StepsPassedLine == <<"2", "4", " ", "s", "t", "e", "p", "s", " ", "(", "2", "4", " ", "p", "a", "s", "s", "e", "d", ")">>
ScenarioFailedSummary == <<"6", " ", "s", "c", "e", "n", "a", "r", "i", "o", "s", " ", "(", "5", " ", "p", "a", "s", "s", "e", "d", ",", " ", "1", " ", "f", "a", "i", "l", "e", "d", ")">>
ErrorLine == <<"E", "r", "r", "o", "r", ":", " ", "x">>
DotsLine == <<".", ".", ".", ".">>

AllSixPassedLine == SixScenarios \o <<" ", "(">> \o SixPassed \o <<")">>

\* Something printed: what it is, and the text it carries
Message(kind, text) == [kind |-> kind, text |-> text]

\* The finally clause skipped when the test run raised
terminate_unless_raised(proc, raised) == IF raised THEN proc ELSE "terminated"

\* finally: server_proc.terminate(), on every way out of the try block
terminate(proc, raised) == "terminated"

verify_frame == <<feature_lines, step_decls, steps_needed, step_definitions,
                  mapping_results, step_index, report, search_vars,
                  file_system, issues, test_results, metrics, seen_patterns,
                  in_duplicate, fixes_applied, phases, runs,
                  failures, current_scenario>>

\* subprocess.Popen(['npm', 'run', 'test:servers:start']) and the wait
StartServers ==
    /\ pc = "start"
    /\ server_proc' = "running"
    /\ printed' = Append(printed, Message("Starting test servers...", <<>>))
    /\ pc' = "try"
    /\ UNCHANGED <<result, exit_code>>
    /\ UNCHANGED verify_frame

\* try: the test run returns its output
RunBddTests ==
    /\ pc = "try"
    /\ \E out \in SeqsUpTo({AllSixPassedLine, StepsPassedLine, ScenarioFailedSummary,
                            ErrorLine, DotsLine}, MaxOutputLines) :
          /\ result' = [stdout |-> join_lines(out), stderr |-> <<>>]
          /\ printed' = Append(printed, Message("TEST OUTPUT", join_lines(out)))
    /\ pc' = "parse"
    /\ UNCHANGED <<server_proc, exit_code>>
    /\ UNCHANGED verify_frame

\* try: subprocess.run raises (npm is not installed, the run is interrupted)
RunBddTestsRaises ==
    /\ pc = "try"
    /\ result' = [raised |-> TRUE]
    /\ pc' = "finally"
    /\ UNCHANGED <<server_proc, printed, exit_code>>
    /\ UNCHANGED verify_frame

\* The lines of the output a test keeps, in order
lines_with(text, words) ==
    LET has(line) == \E w \in words : ContainsText(line, w)
    IN SelectSeq(split_lines(text), has)

\* "6 scenarios (6 passed)" in output: success, and the last line with
\* `steps` when there is one
ReportSuccess ==
    /\ pc = "parse"
    /\ ContainsText(result.stdout, AllSixPassedLine)
    /\ printed' =
         LET steps_lines == lines_with(result.stdout, {StepsWord}) IN
         Append(printed, Message("SUCCESS! All 6 scenarios passed!", <<>>))
           \o IF ContainsText(result.stdout, StepsWord)
              THEN <<Message("Execution details", steps_lines[Len(steps_lines)])>>
              ELSE <<>>
    /\ pc' = "finally"
    /\ UNCHANGED <<server_proc, result, exit_code>>
    /\ UNCHANGED verify_frame

\* Otherwise: the lines with `failed` or `Error` are printed
ReportFailure ==
    /\ pc = "parse"
    /\ ~ContainsText(result.stdout, AllSixPassedLine)
    /\ printed' =
         LET failing == lines_with(result.stdout, {FailedWord, ErrorWord}) IN
         Append(printed, Message("Some tests are still failing", <<>>))
           \o [k \in 1..Len(failing) |-> Message("  - ", failing[k])]
    /\ pc' = "finally"
    /\ UNCHANGED <<server_proc, result, exit_code>>
    /\ UNCHANGED verify_frame

\* finally: the server process is terminated.  After a normal end of the
\* try block the script goes on; after an exception the exception goes on.
CleanUp ==
    /\ pc = "finally"
    /\ server_proc' = terminate(server_proc, "raised" \in DOMAIN result)
    /\ pc' = IF "raised" \in DOMAIN result THEN "raised" ELSE "summary"
    /\ UNCHANGED <<result, printed, exit_code>>
    /\ UNCHANGED verify_frame

\* The summary is printed and the script ends
PrintSummary ==
    /\ pc = "summary"
    /\ printed' = Append(printed, Message("BMAD CYCLE SUMMARY", <<>>))
    /\ exit_code' = 0
    /\ pc' = "exited"
    /\ UNCHANGED <<server_proc, result>>
    /\ UNCHANGED verify_frame

\* The exception of the test run ends the script
ExitOnRaise ==
    /\ pc = "raised"
    /\ exit_code' = 1
    /\ pc' = "exited"
    /\ UNCHANGED <<server_proc, result, printed>>
    /\ UNCHANGED verify_frame

NextVerify ==
    \/ StartServers \/ RunBddTests \/ RunBddTestsRaises
    \/ ReportSuccess \/ ReportFailure \/ CleanUp \/ PrintSummary \/ ExitOnRaise

InitVerify ==
    /\ pc = "start"
    /\ server_proc = None
    /\ result = None
    /\ printed = <<>>
    /\ exit_code = None
    /\ file_system = <<>>
    /\ issues = None
    /\ test_results = <<>>
    /\ metrics = None
    /\ seen_patterns = {}
    /\ in_duplicate = FALSE
    /\ fixes_applied = <<>>
    /\ phases = <<>>
    /\ runs = <<>>
    /\ failures = None
    /\ current_scenario = <<>>
    /\ SearchIdle
    /\ MeasureIdle

SpecVerify == InitVerify /\ [][NextVerify]_vars

-----------------------------------------------------------------------------
(* Properties of the resolution run (Spec) *)

\* The indices of the definitions that take step k: same keyword (or the
\* step is an And step) and the text accepted
CandidateIndices(k) ==
    {j \in 1..Len(step_definitions) :
       /\ type_compatible(steps_needed[k], step_definitions[j])
       /\ definition_accepts(step_definitions[j], steps_needed[k].text)}

\* The steps the loop has classified so far
Processed == 1..(step_index - 1)

\* The list of mapping_results the step just taken has appended to
Appended(list) ==
    /\ Len(mapping_results'[list]) = Len(mapping_results[list]) + 1
    /\ SubSeq(mapping_results'[list], 1, Len(mapping_results[list])) = mapping_results[list]

\* C1: every pass of the matching loop puts its step in exactly one of the
\* three lists: in unmatched iff no definition takes the step, in matched iff
\* exactly one does (and that one is recorded), in ambiguous iff two or more
\* do (and those are recorded).  Nothing else changes the three lists.
C1_Trichotomy ==
    [][IF step_index' = step_index + 1
       THEN LET step == steps_needed[step_index]
                candidates == CandidateIndices(step_index)
                lists == {"unmatched", "matched", "ambiguous"}
                last(list) == mapping_results'[list][Len(mapping_results'[list])]
            IN /\ \E list \in lists :
                    /\ Appended(list)
                    /\ \A other \in lists \ {list} :
                         mapping_results'[other] = mapping_results[other]
               /\ Appended("unmatched") <=> Cardinality(candidates) = 0
               /\ Appended("matched") <=> Cardinality(candidates) = 1
               /\ Appended("ambiguous") <=> Cardinality(candidates) >= 2
               /\ Appended("unmatched") => last("unmatched") = step
               /\ Appended("matched") =>
                    /\ last("matched").step = step
                    /\ \E j \in candidates :
                         last("matched").definition = step_definitions[j]
               /\ Appended("ambiguous") =>
                    /\ last("ambiguous").step = step
                    /\ Len(last("ambiguous").definitions) = Cardinality(candidates)
                    /\ \A n \in 1..Len(last("ambiguous").definitions) :
                         \E j \in candidates :
                            last("ambiguous").definitions[n] = step_definitions[j]
       ELSE UNCHANGED mapping_results]_vars

\* A finished run that recorded a matched and an ambiguous step
C1_Witness ==
    /\ pc = "done"
    /\ Len(mapping_results.matched) >= 1
    /\ Len(mapping_results.ambiguous) >= 1

\* The keyword a step resolves to: its own, or for an And step that of the
\* nearest preceding step of the same scenario that is not an And step
\* ("And" when there is none)
RECURSIVE ResolvedKeyword(_, _)
ResolvedKeyword(steps, k) ==
    IF steps[k].type # "And" THEN steps[k].type
    ELSE IF k > 1 /\ steps[k - 1].feature = steps[k].feature
                  /\ steps[k - 1].scenario = steps[k].scenario
         THEN ResolvedKeyword(steps, k - 1)
         ELSE "And"

\* C2: every candidate of a classified step has the step's resolved keyword
\* (steps of a scenario that starts with an And step left aside).
C2_KeywordIsolation ==
    \A k \in Processed :
      ResolvedKeyword(steps_needed, k) # "And" =>
        \A j \in CandidateIndices(k) :
           step_definitions[j].type = ResolvedKeyword(steps_needed, k)

\* C3: once the catalog is built, every step carries its resolved keyword:
\* no step of a scenario that starts with Given, When or Then is an And step.
C3_AndRewritten ==
    pc # "extract_steps" =>
      \A k \in 1..Len(steps_needed) :
         ResolvedKeyword(steps_needed, k) # "And" =>
            steps_needed[k].type = ResolvedKeyword(steps_needed, k)

\* The declarations of the step files, as (file, position) pairs
Declarations ==
    {<<f, n>> : f \in 1..Len(step_decls), n \in 1..MaxDecls + 1} \cap
    {fn \in (1..Len(step_decls)) \X (1..MaxDecls + 1) : fn[2] <= Len(step_decls[fn[1]])}

DeclOf(fn) == step_decls[fn[1]][fn[2]]

\* The positions of the candidates of an ambiguous record that come from a
\* declaration with this keyword and pattern
RecordedAs(item, decl) ==
    {q \in 1..Len(item.definitions) :
       /\ item.definitions[q].type = decl.type
       /\ item.definitions[q].pattern = decl.pattern}

\* C6: when two distinct declarations of a step's keyword both accept its
\* text, the finished run has the step among the ambiguous ones with both
\* of them as candidates.
C6_AmbiguityReported ==
    pc = "done" =>
      \A k \in 1..Len(steps_needed) :
        \A a \in Declarations : \A b \in Declarations \ {a} :
           (/\ DeclOf(a).type = steps_needed[k].type
            /\ DeclOf(b).type = steps_needed[k].type
            /\ definition_accepts(make_definition(a[1], DeclOf(a).type, DeclOf(a).pattern),
                                  steps_needed[k].text)
            /\ definition_accepts(make_definition(b[1], DeclOf(b).type, DeclOf(b).pattern),
                                  steps_needed[k].text))
           => \E n \in 1..Len(mapping_results.ambiguous) :
                 LET item == mapping_results.ambiguous[n] IN
                 /\ item.step = steps_needed[k]
                 /\ \E q \in RecordedAs(item, DeclOf(a)) :
                      \E r \in RecordedAs(item, DeclOf(b)) : q # r

\* The indices of the definitions that take a step
CandidatesOf(step) ==
    {j \in 1..Len(step_definitions) :
       /\ type_compatible(step, step_definitions[j])
       /\ definition_accepts(step_definitions[j], step.text)}

\* The sequence defs lists the definitions with the indices S, each index
\* once, in the order of step_definitions
ListsInOrder(defs, S) ==
    /\ Len(defs) = Cardinality(S)
    /\ \E at \in [1..Len(defs) -> S] :
         /\ \A n \in 1..Len(defs) - 1 : at[n] < at[n + 1]
         /\ \A n \in 1..Len(defs) : defs[n] = step_definitions[at[n]]

\* The steps from[k..] resolved once more against the same definitions,
\* starting from the results so far
RECURSIVE ResolveAgain(_, _, _)
ResolveAgain(results, steps, k) ==
    IF k > Len(steps) THEN results
    ELSE ResolveAgain(classify(results, steps[k],
                               match_step_to_definition(steps[k], step_definitions)),
                      steps, k + 1)

\* C12: a finished run has the results a second resolution of the same steps
\* against the same definitions gives, and the candidates of every record are
\* the definitions that take its step, each once, in the order of the
\* definitions.
C12_Deterministic ==
    pc = "done" =>
      /\ mapping_results = ResolveAgain(EmptyResults, steps_needed, 1)
      /\ \A n \in 1..Len(mapping_results.ambiguous) :
           ListsInOrder(mapping_results.ambiguous[n].definitions,
                        CandidatesOf(mapping_results.ambiguous[n].step))
      /\ \A n \in 1..Len(mapping_results.matched) :
           ListsInOrder(<<mapping_results.matched[n].definition>>,
                        CandidatesOf(mapping_results.matched[n].step))

\* A finished run with an ambiguous step that has two different candidates
C12_Witness ==
    /\ pc = "done"
    /\ \E n \in 1..Len(mapping_results.ambiguous) :
         mapping_results.ambiguous[n].definitions[1]
           # mapping_results.ambiguous[n].definitions[2]

\* The steps of the records of one list of mapping_results, in list order
RecordedSteps(list) ==
    IF list = "unmatched" THEN mapping_results.unmatched
    ELSE [n \in 1..Len(mapping_results[list]) |-> mapping_results[list][n].step]

\* The steps classified so far, from the k-th on, are the steps of the records
\* from the i-th matched, the j-th unmatched and the l-th ambiguous one on,
\* every list in input order and every record standing for one step
RECURSIVE SentInOrder(_, _, _, _)
SentInOrder(i, j, l, k) ==
    IF k > step_index - 1
    THEN /\ i > Len(mapping_results.matched)
         /\ j > Len(mapping_results.unmatched)
         /\ l > Len(mapping_results.ambiguous)
    ELSE \/ /\ i <= Len(mapping_results.matched)
            /\ mapping_results.matched[i].step = steps_needed[k]
            /\ SentInOrder(i + 1, j, l, k + 1)
         \/ /\ j <= Len(mapping_results.unmatched)
            /\ mapping_results.unmatched[j] = steps_needed[k]
            /\ SentInOrder(i, j + 1, l, k + 1)
         \/ /\ l <= Len(mapping_results.ambiguous)
            /\ mapping_results.ambiguous[l].step = steps_needed[k]
            /\ SentInOrder(i, j, l + 1, k + 1)

\* C13: the steps classified so far have one record each: the three lists
\* together hold as many records as steps were classified, every list holds
\* the steps of its records in input order, and the finished report counts
\* as many matched, unmatched and ambiguous steps as there are input steps.
C13_OneRecordPerStep ==
    pc \in {"match", "done", "ZeroDivisionError"} =>
      /\ Len(mapping_results.matched) + Len(mapping_results.unmatched)
           + Len(mapping_results.ambiguous) = step_index - 1
      /\ SentInOrder(1, 1, 1, 1)
      /\ pc # "match" =>
           /\ step_index - 1 = Len(steps_needed)
           /\ report.total_steps = Len(steps_needed)
           /\ report.matched_steps + report.unmatched_steps + report.ambiguous_steps
                = report.total_steps

\* A finished run of two steps, one matched and one unmatched
C13_Witness ==
    /\ pc = "done"
    /\ Len(steps_needed) = 2
    /\ Len(mapping_results.matched) = 1
    /\ Len(mapping_results.unmatched) = 1

\* The global count of a class in the report
GlobalCount(class) ==
    CASE class = "matched" -> report.matched_steps
      [] class = "unmatched" -> report.unmatched_steps
      [] class = "ambiguous" -> report.ambiguous_steps

\* The sum of the per-feature counts of a class over the features F
RECURSIVE SumOverFeatures(_, _)
SumOverFeatures(F, class) ==
    IF F = {} THEN 0
    ELSE LET f == CHOOSE x \in F : TRUE
         IN report.steps_by_feature[f][class] + SumOverFeatures(F \ {f}, class)

\* C14: once the report is built, every per-feature count of a class is the
\* number of records of that class whose step is of that feature, a feature
\* with a record has its counts, the global count of a class is the number
\* of its records, and the per-feature counts of a class add up to it.
C14_SummaryIsReduction ==
    pc \in {"done", "ZeroDivisionError"} =>
      \A class \in {"matched", "unmatched", "ambiguous"} :
         LET steps == RecordedSteps(class)
             byFeature == report.steps_by_feature
         IN /\ \A n \in 1..Len(steps) : steps[n].feature \in DOMAIN byFeature
            /\ \A f \in DOMAIN byFeature :
                 byFeature[f][class]
                   = Cardinality({n \in 1..Len(steps) : steps[n].feature = f})
            /\ GlobalCount(class) = Len(steps)
            /\ SumOverFeatures(DOMAIN byFeature, class) = GlobalCount(class)

\* A finished report with the steps of two features
C14_Witness ==
    /\ pc = "done"
    /\ Cardinality(DOMAIN report.steps_by_feature) = 2

\* C15: resolution and its summary never end in an exception, whatever the
\* steps (none at all included) and the definitions.
C15_NeverRaises == pc # "ZeroDivisionError"

\* The scenario of a line or of a step
ScenarioOf(x) == <<x.feature, x.scenario>>

\* The first step line of the scenario is an And line
Malformed(scenario) ==
    \E k \in 1..Len(feature_lines) :
       /\ ScenarioOf(feature_lines[k]) = scenario
       /\ feature_lines[k].type = "And"
       /\ \A j \in 1..(k - 1) : ScenarioOf(feature_lines[j]) # scenario

\* C16: once the catalog is built, it holds no step of a scenario whose first
\* step line is an And line, and it holds a step for every line of the other
\* scenarios.
C16_MalformedRejected ==
    pc # "extract_steps" =>
      /\ \A k \in 1..Len(steps_needed) : ~Malformed(ScenarioOf(steps_needed[k]))
      /\ \A k \in 1..Len(feature_lines) :
           ~Malformed(ScenarioOf(feature_lines[k])) =>
              \E n \in 1..Len(steps_needed) :
                 /\ ScenarioOf(steps_needed[n]) = ScenarioOf(feature_lines[k])
                 /\ steps_needed[n].text = feature_lines[k].text

\* The (keyword, text) pairs of the step lines of one feature, in source order
LinesOfFeature(f) ==
    LET in(l) == l.feature = f
        ls == SelectSeq(feature_lines, in)
    IN [n \in 1..Len(ls) |-> <<ls[n].type, ls[n].text>>]

\* The steps of the scenario blocks of one feature, one block after the other
StepsOfBlocks(blocks) == Flatten([b \in 1..Len(blocks) |-> blocks[b].steps])

-----------------------------------------------------------------------------
(* Properties of the matcher (SpecMatch): one step, one definition *)

TheText == steps_needed[1].text
ThePattern == step_definitions[1].pattern
Matched == step_index = 2
Accepted == step_index = 2 /\ Len(mapping_results.matched) = 1
Rejected == step_index = 2 /\ Len(mapping_results.unmatched) = 1

\* The whole text, from its first to its last character, matches the regular
\* expression: a match that starts at 0 ends at Len(text)
FullMatch(regex, text) ==
    LET toks == Lex(regex) IN
    /\ Compiles(toks)
    /\ Len(text) \in AltEnds(toks, 1, Len(toks), text, {0})

\* C4: a text is accepted only if the whole of it matches the pattern: it is
\* the pattern itself, or the expression the pattern converts to matches it
\* from the first to the last character.
C4_FullAnchoring ==
    Accepted =>
      \/ ThePattern = TheText
      \/ FullMatch(cucumber_to_regex(ThePattern), TheText)

\* C5 as stated: `I click "{string}"` accepts `I click "Submit"` and rejects
\* `I click "Submit" now` and `Then I click "Submit"`.
C5_ClickQuotedAsStated ==
    (Matched /\ ThePattern = ClickQuoted) =>
      /\ TheText = ClickSubmit => Accepted
      /\ TheText \in {ClickSubmitNow, ThenClickSubmit} => Rejected

\* C5 amended: {string} stands for the quoted text with its quotes, so
\* `I click {string}` accepts `I click "Submit"` and rejects
\* `I click "Submit" now` and `Then I click "Submit"`, while
\* `I click "{string}"`, with quotes of its own around the placeholder,
\* rejects all three.
C5_ClickString ==
    /\ (Matched /\ ThePattern = ClickString) =>
         /\ TheText = ClickSubmit => Accepted
         /\ TheText \in {ClickSubmitNow, ThenClickSubmit} => Rejected
    /\ (Matched /\ ThePattern = ClickQuoted) =>
         (TheText \in {ClickSubmit, ClickSubmitNow, ThenClickSubmit} => Rejected)

\* `I click "{string}"` has been tried on `I click "Submit"`
C5_Witness ==
    /\ Matched
    /\ ThePattern = ClickQuoted
    /\ TheText = ClickSubmit
    /\ Rejected

\* The placeholder names the documentation recognizes
Vocabulary == {<<"s", "t", "r", "i", "n", "g">>, <<"i", "n", "t">>,
               <<"f", "l", "o", "a", "t">>, <<"w", "o", "r", "d">>}

\* The pattern holds a {name} token, name a run of letters, outside the
\* vocabulary
HasUnknownPlaceholder(pattern) ==
    \E a \in 1..Len(pattern) : \E b \in (a + 2)..Len(pattern) :
       /\ pattern[a] = "{"
       /\ pattern[b] = "}"
       /\ \A k \in (a + 1)..(b - 1) : pattern[k] \in Letters
       /\ SubSeq(pattern, a + 1, b - 1) \notin Vocabulary

\* C7: a pattern with a placeholder outside the vocabulary accepts no text.
C7_UnknownPlaceholderRejected ==
    (Matched /\ HasUnknownPlaceholder(ThePattern)) => Rejected

\* The tokens of a pattern whose characters outside the placeholders that
\* cucumber_to_regex substitutes all stand for themselves
Placeholders ==
    {[name |-> <<"{", "s", "t", "r", "i", "n", "g", "}">>, fragment |-> StringFragment],
     [name |-> <<"{", "i", "n", "t", "}">>, fragment |-> IntFragment],
     [name |-> <<"{", "w", "o", "r", "d", "}">>, fragment |-> WordFragment]}

RECURSIVE LiteralTokens(_)
LiteralTokens(pattern) ==
    LET found == {k \in 1..Len(pattern) :
                    \E x \in Placeholders : StartsWithAt(pattern, k, x.name)}
    IN IF found = {} THEN [k \in 1..Len(pattern) |-> Tok("lit", pattern[k])]
       ELSE LET first == CHOOSE k \in found : \A j \in found : k <= j
                h == CHOOSE x \in Placeholders : StartsWithAt(pattern, first, x.name)
            IN [k \in 1..(first - 1) |-> Tok("lit", pattern[k])]
                 \o Lex(h.fragment)
                 \o LiteralTokens(SubSeq(pattern, first + Len(h.name), Len(pattern)))

HasPlaceholder(pattern) == cucumber_to_regex(pattern) # pattern

LiteralMatch(pattern, text) ==
    LET toks == LiteralTokens(pattern) IN
    Len(text) \in SeqEnds(toks, 1, Len(toks), text, {0})

\* C8: in a pattern with placeholders every character outside a placeholder
\* accepts only itself.
C8_LiteralsEscaped ==
    (Accepted /\ HasPlaceholder(ThePattern)) => LiteralMatch(ThePattern, TheText)

RegexSpecial == {".", "^", "$", "*", "+", "?", "(", ")", "[", "]", "{", "}", "|", "\\"}

\* kind Literal: no placeholder, no regex metacharacter
IsLiteral(pattern) == \A k \in 1..Len(pattern) : pattern[k] \notin RegexSpecial

\* C9: a Literal pattern accepts a text iff the text equals the pattern,
\* character for character.
C9_LiteralExact ==
    (Matched /\ IsLiteral(ThePattern)) =>
      /\ Accepted <=> ThePattern = TheText
      /\ Rejected <=> ThePattern # TheText

\* `I am logged in` has accepted `I am logged in`
C9_Witness ==
    /\ Accepted
    /\ ThePattern = LoggedIn
    /\ TheText = LoggedIn

\* One or more decimal digits, optionally preceded by a minus sign
IsSignedInt(text) ==
    LET from == IF text # <<>> /\ Head(text) = "-" THEN 2 ELSE 1 IN
    /\ from <= Len(text)
    /\ \A k \in from..Len(text) : text[k] \in Digits

\* C10: {int} accepts the digits with and without a minus sign, alone and
\* in `I wait for {int} seconds`.
C10_IntSigned ==
    /\ (Matched /\ ThePattern = <<"{", "i", "n", "t", "}">> /\ IsSignedInt(TheText))
         => Accepted
    /\ (Matched /\ ThePattern = WaitInt /\ TheText \in {WaitMinus5, Wait5})
         => Accepted

\* One or more decimal digits
IsNumeral(text) == text # <<>> /\ \A k \in 1..Len(text) : text[k] \in Digits

\* C11: {int} accepts only a bare numeral. `I wait for {int} seconds` accepts
\* `I wait for 5 seconds` and `I wait for 0 seconds` and rejects
\* `I wait for five seconds` and `I wait for "5" seconds`; the pattern {int}
\* alone accepts a text iff the text is a numeral (or the pattern itself), so
\* never a numeral in double quotes.
C11_IntBareNumeral ==
    /\ (Matched /\ ThePattern = WaitInt) =>
         /\ TheText \in {Wait5, Wait0} => Accepted
         /\ TheText \in {WaitFive, WaitQuoted5} => Rejected
    /\ (Matched /\ ThePattern = <<"{", "i", "n", "t", "}">>) =>
         /\ Accepted <=> (IsNumeral(TheText) \/ TheText = ThePattern)
         /\ TheText = Quoted5 => Rejected

\* `I wait for {int} seconds` has rejected `I wait for five seconds`
C11_Witness ==
    /\ Rejected
    /\ ThePattern = WaitInt
    /\ TheText = WaitFive

\* The expression the pattern converts to compiles
PatternCompiles(pattern) == Compiles(Lex(anchored(cucumber_to_regex(pattern))))

\* C17: a definition whose pattern fails to compile is a candidate of no
\* step.
C17_InvalidPatternExcluded ==
    (Matched /\ ~PatternCompiles(ThePattern)) => Rejected

\* C19: `the price is {float}` accepts `the price is 1.5`, `the price is -2`
\* and `the price is 10`, and rejects `the price is 1.` and
\* `the price is abc`.
C19_FloatAccepted ==
    (Matched /\ ThePattern = PriceFloat) =>
      /\ TheText \in {Price1_5, PriceMinus2, Price10} => Accepted
      /\ TheText \in {Price1Dot, PriceAbc} => Rejected

-----------------------------------------------------------------------------
(* Properties of update_search_steps (SpecSearch) *)

\* A line that contains When('I click and not search, in any case
IsHeader(k) == is_generic_click(content_lines[k])

\* Line k is a header or follows one with no declaration line from the line
\* after the header up to line k
InHandler(k) ==
    \E h \in 1..k :
       /\ IsHeader(h)
       /\ \A j \in (h + 1)..k : ~starts_declaration(content_lines[j])

\* The lines outside every handler, in their original order
LinesOutsideHandlers ==
    LET outside(k) == ~InHandler(k)
        at == SelectSeq([k \in 1..Len(content_lines) |-> k], outside)
    IN [n \in 1..Len(at) |-> content_lines[at[n]]]

\* C20: the lines written back are the lines that are neither a header nor
\* between a header and the next declaration line, in their original order.
C20_HandlerRemoved ==
    pc = "written" => filtered_lines = LinesOutsideHandlers

-----------------------------------------------------------------------------
(* Properties of main of bmad_fix_all_tests.py (SpecFix, SpecMeasure) *)

\* The five phases of the cycle, in order
CyclePhases == <<"BUILD", "MEASURE", "ANALYZE", "DECIDE", "VERIFY">>

\* C21: a run of main that has ended went through BUILD, MEASURE, ANALYZE,
\* DECIDE and VERIFY in this order, wrote BMAD-COMPLETE-FIX-REPORT.json, and
\* its exit code is 0 or 1 as VERIFY decided.
C21_CycleCompletes ==
    pc = "exited" =>
       /\ phases = CyclePhases
       /\ "BMAD-COMPLETE-FIX-REPORT.json" \in DOMAIN file_system
       /\ exit_code \in {0, 1}

\* The duplicate-removal pass has run and the file is rewritten
PassDone ==
    /\ pc \in {"parameters", "undefined", "NameError", "exited"}
    /\ issues.registration_duplicates # <<>>

\* The lines of a file that start a step definition: keyword, parenthesis,
\* quote, pattern, quote at the very start of the line
HeaderIndices(file_lines) ==
    {k \in 1..Len(file_lines) : line_match(file_lines[k]) # <<>>}

\* The (keyword, pattern) pair of header line k
PairAt(file_lines, k) ==
    <<line_match(file_lines[k])[1].keyword, line_match(file_lines[k])[1].pattern>>

\* The header lines whose pair does not occur on an earlier header line
FirstOccurrences(file_lines) ==
    {k \in HeaderIndices(file_lines) :
       \A j \in HeaderIndices(file_lines) :
          j < k => PairAt(file_lines, j) # PairAt(file_lines, k)}

DefinitionEnd(file_lines, h) ==
    LET line == file_lines[h]
        stops == {k \in (h + 1)..Len(file_lines) :
                    \/ file_lines[k] = <<"}", ")", ";">>
                    \/ line_match(file_lines[k]) # <<>>}
    IN IF SubSeq(line, Len(line) - 1, Len(line)) = <<")", ";">> THEN h
       ELSE IF stops = {} THEN Len(file_lines)
       ELSE LET stop == CHOOSE k \in stops : \A j \in stops : k <= j
            IN IF line_match(file_lines[stop]) # <<>> THEN stop - 1 ELSE stop

\* The lines that belong to a duplicate definition
DuplicateLines(file_lines) ==
    {k \in 1..Len(file_lines) :
       \E h \in HeaderIndices(file_lines) \ FirstOccurrences(file_lines) :
          h <= k /\ k <= DefinitionEnd(file_lines, h)}

\* C23: the pass deletes only lines of duplicate definitions: the file
\* written is the input without some of the lines of its duplicate
\* definitions, every other line kept, unchanged and in order.
C23_OnlyDuplicatesDeleted ==
    PassDone =>
       \E kept \in SUBSET (1..Len(content_lines)) :
          /\ (1..Len(content_lines)) \ DuplicateLines(content_lines) \subseteq kept
          /\ file_system.registration_steps = Pick(content_lines, kept)

\* C24: every duplicate that BUILD recorded is removed: detection on the
\* rewritten file finds none, and the number of definitions reported as
\* removed is the number of definitions the file has lost.
C24_DetectionAgreesWithRemoval ==
    PassDone =>
       /\ registration_duplicates(file_system.registration_steps) = <<>>
       /\ Len(issues.registration_duplicates)
            = Len(find_step_defs(join_lines(content_lines), 1))
              - Len(find_step_defs(join_lines(file_system.registration_steps), 1))

\* A scenario with a step whose status is undefined, ambiguous or failed, a
\* missing status counting as undefined
ScenarioFailed(scenario) ==
    \E k \in 1..Len(scenario) :
       scenario[k] \in {"undefined", "ambiguous", "failed", "missing"}

\* The scenarios of the result, by feature and scenario number
ScenariosOf(results) ==
    UNION {{<<f, e>> : e \in 1..Len(results[f])} : f \in 1..Len(results)}

\* C27: failed_scenarios is the number of scenarios with a failing step,
\* failed_features the number of features with such a scenario, each counted
\* once; so neither exceeds the total it is counted against.
C27_FailedCountedOnce ==
    pc = "ANALYZE" =>
       /\ metrics.total_features = Len(test_results)
       /\ metrics.total_scenarios = Cardinality(ScenariosOf(test_results))
       /\ metrics.failed_scenarios
            = Cardinality({p \in ScenariosOf(test_results) :
                             ScenarioFailed(test_results[p[1]][p[2]])})
       /\ metrics.failed_features
            = Cardinality({f \in 1..Len(test_results) :
                             \E e \in 1..Len(test_results[f]) :
                                ScenarioFailed(test_results[f][e])})
       /\ metrics.failed_scenarios <= metrics.total_scenarios
       /\ metrics.failed_features <= metrics.total_features

\* A result was measured in which one scenario has two failing steps, one of
\* them without a status, and another scenario of the same feature fails too
C27_Witness ==
    /\ pc = "ANALYZE"
    /\ \E f \in 1..Len(test_results) :
          /\ Len(test_results[f]) = 2
          /\ test_results[f][1] = <<"missing", "failed">>
          /\ ScenarioFailed(test_results[f][2])
    /\ metrics.failed_scenarios = 2
    /\ metrics.failed_features = 1

-----------------------------------------------------------------------------
(* Properties of implement_fixes (SpecDecide) *)

\* The definitions of a text, in order
DefinitionsOf(content) ==
    LET is_definition(piece) == piece.keyword # "" IN SelectSeq(content, is_definition)

\* C25: the definitions that implement_fixes has written to form-steps.ts
\* and profile-steps.ts, with those of NAVIGATION_STEPS_UPDATE, hold no two
\* definitions with the same keyword and the same pattern text.
C25_NoDuplicateWritten ==
    pc = "returned" =>
       LET written == DefinitionsOf(file_system.form_steps)
                        \o DefinitionsOf(file_system.profile_steps)
                        \o DefinitionsOf(NAVIGATION_STEPS_UPDATE)
       IN \A j, k \in 1..Len(written) :
             j # k => \/ written[j].keyword # written[k].keyword
                      \/ written[j].pattern # written[k].pattern

\* How often a definition occurs in a text
Occurrences(content, keyword, pattern) ==
    Cardinality({k \in 1..Len(content) :
                   content[k].keyword = keyword /\ content[k].pattern = pattern})

\* C26: after the second run navigation-steps.ts is what it was after the
\* first, every definition of NAVIGATION_STEPS_UPDATE occurs in it exactly
\* once, and content of at least 200 non-blank characters that was there
\* before the first run is still at its start.
C26_NavigationIdempotent ==
    (pc = "returned" /\ Len(runs) = 3) =>
       /\ runs[3] = runs[2]
       /\ \A k \in 1..Len(NAVIGATION_STEPS_UPDATE) :
             NAVIGATION_STEPS_UPDATE[k].keyword # "" =>
                Occurrences(runs[3], NAVIGATION_STEPS_UPDATE[k].keyword,
                            NAVIGATION_STEPS_UPDATE[k].pattern) = 1
       /\ (runs[1] # Absent /\ stripped_length(runs[1]) >= 200) =>
             SubSeq(runs[3], 1, Len(runs[1])) = runs[1]

\* The output has the line that reports 6 of 6 scenarios passed
AllSixPassed(text) ==
    \E k \in 1..Len(text) :
       /\ StartsWithAt(text, k, AllSixPassedLine)
       /\ k = 1 \/ text[k - 1] = "\n"

\* C28: the success flag of the DECIDE report is true iff the success
\* message was printed, and iff the output reports 6 of 6 scenarios passed.
C28_FlagMatchesMessage ==
    pc = "returned" =>
       /\ report.success <=> (\E k \in 1..Len(printed) :
                                 printed[k] = "SUCCESS! All tests are now passing!")
       /\ report.success <=> AllSixPassed(report.test_output)

-----------------------------------------------------------------------------
(* Properties of run_tests_and_analyze (SpecAnalysis) *)

\* The lists in the order in which the line is tested for them
ListOrder == <<"undefined", "ambiguous", "failed", "passed">>

\* The line has the mark of the n-th list
Marked(line, n) ==
    CASE n = 1 -> ContainsText(Lower(line), UndefinedWord)
      [] n = 2 -> ContainsText(Lower(line), AmbiguousWord)
      [] n = 3 -> ContainsText(Lower(line), FailedWord)
      [] n = 4 -> Contains(line, CheckMark) \/ ContainsText(Lower(line), PassedWord)

\* The scenario lines before line k
ScenarioLinesBefore(k) ==
    {j \in 1..(k - 1) : ContainsText(content_lines[j], ScenarioMark)}

\* The lines read so far that belong in the n-th list: not a scenario line,
\* after a scenario line, with the mark of the list and of no list before it
BelongIn(n) ==
    {k \in 1..(line_index - 1) :
       /\ ~ContainsText(content_lines[k], ScenarioMark)
       /\ ScenarioLinesBefore(k) # {}
       /\ Marked(content_lines[k], n)
       /\ \A m \in 1..(n - 1) : ~Marked(content_lines[k], m)}

\* The entry of line k: the line, stripped, under the last scenario line
\* before it, stripped
EntryOf(k) ==
    [scenario |-> Strip(content_lines[CHOOSE j \in ScenarioLinesBefore(k) :
                                         \A o \in ScenarioLinesBefore(k) : o <= j]),
     step |-> Strip(content_lines[k])]

\* C29: each list holds the entries of the lines read so far that have its
\* mark and the mark of no list tested before it, scenario lines and the
\* lines before the first scenario line left out, each entry under the most
\* recent scenario line; so no line is in two lists.
C29_OneListPerLine ==
    pc \in {"analyze", "saved"} =>
       \A n \in 1..Len(ListOrder) :
          failures[ListOrder[n]] = [i \in 1..Cardinality(BelongIn(n)) |->
                                       EntryOf(NthOf(BelongIn(n), i))]

\* All lines are read: one with a mark stood before the first scenario
\* line, a scenario line had the mark of a list, and a line with the marks
\* of two lists was recorded
C29_Witness ==
    /\ pc = "saved"
    /\ \E k \in 1..Len(content_lines) :
          /\ ScenarioLinesBefore(k) = {}
          /\ ~ContainsText(content_lines[k], ScenarioMark)
          /\ \E n \in 1..4 : Marked(content_lines[k], n)
    /\ \E k \in 1..Len(content_lines) :
          /\ ContainsText(content_lines[k], ScenarioMark)
          /\ Marked(content_lines[k], 3)
    /\ \E k \in BelongIn(1) : Marked(content_lines[k], 3)

-----------------------------------------------------------------------------
(* Properties of verify_bmad_fixes.py (SpecVerify) *)

\* C30: once the try block is left, by its end or by an exception of the
\* test run, the server process is terminated; so it is when the summary is
\* printed and when the script has ended.
C30_ServerTerminated ==
    /\ pc \in {"summary", "raised", "exited"} => server_proc = "terminated"
    /\ \A k \in 1..Len(printed) :
          printed[k].kind = "BMAD CYCLE SUMMARY" => server_proc = "terminated"

\* The test run raised and the script has ended with the server terminated
C30_Witness ==
    /\ pc = "exited"
    /\ exit_code = 1
    /\ "raised" \in DOMAIN result
    /\ server_proc = "terminated"

=============================================================================
